---- MODULE Spec2Model ----
(***************************************************************************)
(* A model of spsbot: the cell algebra (structs.py), the table side        *)
(* (dbstructs.py) and the sheet side (spsstructs.py).                      *)
(*                                                                         *)
(* Strings are sequences of character codes, so that str(), int(), the     *)
(* regular expression of get_columnrow and Python's string comparison are  *)
(* computed as the code computes them.                                     *)
(***************************************************************************)
EXTENDS Integers, Sequences, FiniteSets, TLC

\* ------------------------------------------------------------------ bounds
\* largest column index converted to a name (covers A..Z, AA..ZZ and AAA..)
MaxIndex == 730
\* longest column name converted to an index
MaxNameLen == 2

\* ------------------------------------------------------------- characters
OrdA == 65
OrdZ == 90
OrdLowerA == 97
OrdLowerZ == 122
OrdZero == 48
OrdNine == 57

\* the exception ValueError, as a value no string function returns
ValueError == <<-1>>

IsUpper(c) == c >= OrdA /\ c <= OrdZ
IsLower(c) == c >= OrdLowerA /\ c <= OrdLowerZ
\* the class [a-zA-Z]
IsAlpha(c) == IsUpper(c) \/ IsLower(c)
\* the class \d
IsDigit(c) == c >= OrdZero /\ c <= OrdNine
\* str.upper() on one character
Upper(c) == IF IsLower(c) THEN c - (OrdLowerA - OrdA) ELSE c

Min(a, b) == IF a < b THEN a ELSE b
Max(a, b) == IF a > b THEN a ELSE b

\* Python's < on two strings: lexicographic by code point, a proper prefix
\* is smaller
RECURSIVE StrLess(_, _)
StrLess(s, t) ==
    IF t = <<>> THEN FALSE
    ELSE IF s = <<>> THEN TRUE
    ELSE IF Head(s) < Head(t) THEN TRUE
    ELSE IF Head(s) > Head(t) THEN FALSE
    ELSE StrLess(Tail(s), Tail(t))

\* str(n) of an integer: its decimal digits
RECURSIVE StrNat(_)
StrNat(n) ==
    IF n < 10 THEN <<OrdZero + n>>
    ELSE Append(StrNat(n \div 10), OrdZero + (n % 10))

\* str() is only applied to rows and positions, which are never negative
Str(n) == StrNat(n)

\* int(s) of a string of decimal digits
RECURSIVE IntOfDigits(_)
IntOfDigits(s) ==
    IF s = <<>> THEN 0
    ELSE 10 * IntOfDigits(SubSeq(s, 1, Len(s) - 1)) + (s[Len(s)] - OrdZero)

\* length of the longest prefix of s, from position i on, made of letters
RECURSIVE AlphaRun(_, _)
AlphaRun(s, i) ==
    IF i <= Len(s) /\ IsAlpha(s[i]) THEN 1 + AlphaRun(s, i + 1) ELSE 0

\* length of the longest prefix of s, from position i on, made of digits
RECURSIVE DigitRun(_, _)
DigitRun(s, i) ==
    IF i <= Len(s) /\ IsDigit(s[i]) THEN 1 + DigitRun(s, i + 1) ELSE 0

\* ------------------------------------------------------------ cell algebra

\* re.match(r'(?P<column>[a-zA-Z]+)(?P<row>\d+)', cellname): does it match
CellMatches(cellname) ==
    LET a == AlphaRun(cellname, 1)
    IN  a > 0 /\ DigitRun(cellname, a + 1) > 0

\* get_columnrow: <<column, row>>, the column a string and the row an
\* integer; <<ValueError, 0>> when the cell name does not match
get_columnrow(cellname) ==
    LET a == AlphaRun(cellname, 1)
        d == DigitRun(cellname, a + 1)
    IN  IF a > 0 /\ d > 0
        THEN <<SubSeq(cellname, 1, a), IntOfDigits(SubSeq(cellname, a + 1, a + d))>>
        ELSE <<ValueError, 0>>

\* get_columnindex: the letters as digits 1..26 in base 26, minus one
RECURSIVE ColumnIndexSum(_)
ColumnIndexSum(columnname) ==
    IF columnname = <<>> THEN 0
    ELSE (1 + Upper(Head(columnname)) - OrdA)
             * ((1 + OrdZ - OrdA) ^ (Len(columnname) - 1))
         + ColumnIndexSum(Tail(columnname))

get_columnindex(columnname) == ColumnIndexSum(columnname) - 1

\* the loop of get_columnname: one digit per position, the lowest as
\* chr(ord('A') + digit) and the upper ones as chr(ord('A') + digit - 1).
\* The digit, int((columnindex % base^(1 + pos)) / base^pos), is computed
\* as the equal (columnindex \div base^pos) % base, which keeps the powers
\* within the integers of the checker when the index is sys.maxsize
RECURSIVE ColumnNameLoop(_, _, _)
ColumnNameLoop(columnindex, pos, result) ==
    LET base == 1 + OrdZ - OrdA
        digit == (columnindex \div (base ^ pos)) % base
        char == IF pos = 0 THEN OrdA + digit ELSE OrdA + digit - 1
        rest == columnindex - digit * (base ^ pos)
    IN  IF rest = 0 THEN <<char>> \o result
        ELSE ColumnNameLoop(rest, pos + 1, <<char>> \o result)

\* a plausible slip: every position written as chr(ord('A') + digit)
RECURSIVE ColumnNameNaive(_, _, _)
ColumnNameNaive(columnindex, pos, result) ==
    LET base == 1 + OrdZ - OrdA
        digit == (columnindex % (base ^ (1 + pos))) \div (base ^ pos)
        rest == columnindex - digit * (base ^ pos)
    IN  IF rest = 0 THEN <<OrdA + digit>> \o result
        ELSE ColumnNameNaive(rest, pos + 1, <<OrdA + digit>> \o result)

get_columnname_naive(columnindex) == ColumnNameNaive(columnindex, 0, <<>>)

get_columnname(columnindex) == ColumnNameLoop(columnindex, 0, <<>>)

\* the bijective base-26 name of an index (0->A, 25->Z, 26->AA, 701->ZZ),
\* the reference the column names are compared with
RECURSIVE BijectiveName(_)
BijectiveName(i) ==
    IF i < 26 THEN <<OrdA + i>>
    ELSE Append(BijectiveName((i \div 26) - 1), OrdA + (i % 26))

\* get_index: the position of a cell in the column-major numbering of a
\* region of nbrows rows whose first row is startrow
get_index(cellname, startrow, nbrows) ==
    LET cr == get_columnrow(cellname)
    IN  get_columnindex(cr[1]) * nbrows + (cr[2] - startrow)

\* get_cellname: the cell at a position of that numbering
get_cellname(index, startrow, nbrows) ==
    get_columnname(index \div nbrows) \o Str(startrow + (index % nbrows))

\* add_rows: the cell value rows below (above when negative); ValueError
\* when the name is no cell or the row would be less than 1
add_rows(cellname, value) ==
    LET cr == get_columnrow(cellname)
    IN  IF cr[1] = ValueError THEN ValueError
        ELSE IF cr[2] + value < 1 THEN ValueError
        ELSE cr[1] \o Str(cr[2] + value)

\* add_columns: the cell value columns to the right (left when negative);
\* ValueError when the name is no cell or the column index would be negative
add_columns(cellname, value) ==
    LET cr == get_columnrow(cellname)
    IN  IF cr[1] = ValueError THEN ValueError
        ELSE IF get_columnindex(cr[1]) + value < 0 THEN ValueError
        ELSE get_columnname(get_columnindex(cr[1]) + value) \o Str(cr[2])

\* sub_cells: the difference in columns and rows from cellname1 to cellname2
sub_cells(cellname1, cellname2) ==
    LET a == get_columnrow(cellname1)
        b == get_columnrow(cellname2)
    IN  <<get_columnindex(b[1]) - get_columnindex(a[1]), b[2] - a[2]>>

\* the exception StopIteration, as a value no cell name equals
StopIteration == <<-2>>

\* a slip in case 4: the two cells are kept as given instead of swapped
NormalizedCornersNoSwap(interval) ==
    LET s == get_columnrow(interval[1])
        e == get_columnrow(interval[2])
    IN  IF s[2] < e[2]
        THEN IF StrLess(s[1], e[1])
             THEN <<interval[1], interval[2]>>
             ELSE <<e[1] \o Str(s[2]), s[1] \o Str(e[2])>>
        ELSE IF StrLess(s[1], e[1])
             THEN <<s[1] \o Str(e[2]), e[1] \o Str(s[2])>>
             ELSE <<interval[1], interval[2]>>

\* the two corners after the four cases of Range.__init__; the columns are
\* compared as strings
NormalizedCorners(interval) ==
    LET s == get_columnrow(interval[1])
        e == get_columnrow(interval[2])
    IN  IF s[2] < e[2]
        THEN IF StrLess(s[1], e[1])
             THEN <<interval[1], interval[2]>>
             ELSE <<e[1] \o Str(s[2]), s[1] \o Str(e[2])>>
        ELSE IF StrLess(s[1], e[1])
             THEN <<s[1] \o Str(e[2]), e[1] \o Str(s[2])>>
             ELSE <<interval[2], interval[1]>>

\* the fields _current and _enditer of a range with the given corners
Rewound(r) ==
    [r EXCEPT !.current = get_index(r.start, r.startrow, 1 + r.endrow - r.startrow),
              !.enditer = get_index(r.end, r.startrow, 1 + r.endrow - r.startrow)]

\* Range.__init__: the object built from an interval of two cell names
RangeNew(interval) ==
    LET c == NormalizedCorners(interval)
        s == get_columnrow(c[1])
        e == get_columnrow(c[2])
    IN  Rewound([start |-> c[1], end |-> c[2],
                 startcolumn |-> s[1], startrow |-> s[2],
                 endcolumn |-> e[1], endrow |-> e[2],
                 current |-> 0, enditer |-> 0])

\* a slip in __next__: the cursor is left where it is on exhaustion
RangeNextNoRestart(r) ==
    IF r.current <= r.enditer
    THEN [range |-> [r EXCEPT !.current = r.current + 1],
          value |-> get_cellname(r.current, r.startrow, 1 + r.endrow - r.startrow)]
    ELSE [range |-> r, value |-> StopIteration]

\* Range.__next__: the object after the call and the cell returned, or
\* StopIteration after the cursor has been put back
RangeNext(r) ==
    IF r.current <= r.enditer
    THEN [range |-> [r EXCEPT !.current = r.current + 1],
          value |-> get_cellname(r.current, r.startrow, 1 + r.endrow - r.startrow)]
    ELSE [range |-> Rewound(r), value |-> StopIteration]

\* Range.__len__
RangeLen(r) ==
    1 + get_index(r.end, r.startrow, 1 + r.endrow - r.startrow)
      - get_index(r.start, r.startrow, 1 + r.endrow - r.startrow)

\* Range.number_of_rows and Range.number_of_columns
number_of_rows(r) == 1 + get_columnrow(r.end)[2] - get_columnrow(r.start)[2]

number_of_columns(r) ==
    1 + get_columnindex(get_columnrow(r.end)[1])
      - get_columnindex(get_columnrow(r.start)[1])

\* the address a cell name stands for: <<column index, row>>
Address(cellname) ==
    LET cr == get_columnrow(cellname)
    IN  <<get_columnindex(cr[1]), cr[2]>>

\* ------------------------------------------------------- values and casts
\* Python values: t is the type ("none", "int", "float", "str") and v the
\* integer, the integral float or the characters
NoneValue == [t |-> "none", v |-> 0]
IntValue(n) == [t |-> "int", v |-> n]
FloatValue(n) == [t |-> "float", v |-> n]
StrValue(s) == [t |-> "str", v |-> s]

\* the empty string, which stands for a cell without data
EmptyString == StrValue(<<>>)

\* is a string one that int() and float() parse: one or more digits
IsNumeral(s) == Len(s) > 0 /\ \A k \in 1..Len(s) : IsDigit(s[k])

\* int(data): ok is FALSE when Python raises
PyInt(data) ==
    IF data.t = "int" \/ data.t = "float" THEN [ok |-> TRUE, value |-> IntValue(data.v)]
    ELSE IF data.t = "str" /\ IsNumeral(data.v)
         THEN [ok |-> TRUE, value |-> IntValue(IntOfDigits(data.v))]
    ELSE [ok |-> FALSE, value |-> data]

\* float(data)
PyFloat(data) ==
    IF data.t = "int" \/ data.t = "float" THEN [ok |-> TRUE, value |-> FloatValue(data.v)]
    ELSE IF data.t = "str" /\ IsNumeral(data.v)
         THEN [ok |-> TRUE, value |-> FloatValue(IntOfDigits(data.v))]
    ELSE [ok |-> FALSE, value |-> data]

\* str(data), of an integer or a string
PyStr(data) ==
    IF data.t = "int" THEN [ok |-> TRUE, value |-> StrValue(Str(data.v))]
    ELSE [ok |-> TRUE, value |-> data]

\* the cast DBColumn.lookup applies to a value read: integer, real, text
\* and date are cast, any other type (datetime) leaves the value as read
CastRead(ctype, data) ==
    IF ctype = "integer" THEN PyInt(data)
    ELSE IF ctype = "real" THEN PyFloat(data)
    ELSE IF ctype = "text" \/ ctype = "date" THEN PyStr(data)
    ELSE [ok |-> TRUE, value |-> data]

\* the cast DBAction.handle_action applies to a default value
CastDefault(ctype, data) ==
    IF ctype = "integer" THEN PyInt(data)
    ELSE IF ctype = "real" THEN PyFloat(data)
    ELSE IF ctype \in {"text", "datetime", "date"} THEN PyStr(data)
    ELSE [ok |-> FALSE, value |-> data]

\* ------------------------------------------------------------- DBAction
\* a slip in handle_action: the warning is raised like an error
handle_action_strict(action, ctype) ==
    IF action.action \in {"Error", "Warning"}
    THEN [exc |-> "RuntimeError", data |-> NoneValue, log |-> <<"ERROR">>]
    ELSE LET c == CastDefault(ctype, action.default)
         IN  IF action.default = NoneValue
             THEN [exc |-> "none", data |-> NoneValue, log |-> <<>>]
             ELSE IF c.ok THEN [exc |-> "none", data |-> c.value, log |-> <<>>]
             ELSE [exc |-> "TypeError", data |-> NoneValue,
                   log |-> <<"ERROR_CAST_COLUMN">>]

\* DBAction.handle_action: the exception raised ("none" when it returns),
\* the data returned and the messages logged
handle_action(action, ctype) ==
    IF action.action = "Error"
    THEN [exc |-> "RuntimeError", data |-> NoneValue, log |-> <<"ERROR">>]
    ELSE LET warned == IF action.action = "Warning" THEN <<"WARNING">> ELSE <<>>
             c == CastDefault(ctype, action.default)
         IN  IF action.default = NoneValue
             THEN [exc |-> "none", data |-> NoneValue, log |-> warned]
             ELSE IF c.ok THEN [exc |-> "none", data |-> c.value, log |-> warned]
             ELSE [exc |-> "TypeError", data |-> NoneValue,
                   log |-> warned \o <<"ERROR_CAST_COLUMN">>]

\* ---------------------------------------------------- sheets and DBRange
\* sheet[cell] inside the try block of DBColumn.lookup: the value of the
\* cell, or '' when the access raises (no such cell in the sheet)
SheetRead(sheet, cell) ==
    LET cr == get_columnrow(cell)
        a == <<get_columnindex(cr[1]), cr[2]>>
    IN  IF cr[1] # ValueError /\ a \in DOMAIN sheet THEN sheet[a] ELSE EmptyString

\* DBCellReference.execute for an explicit descriptor: the descriptor with
\* the column offset and the row offset applied
DBCellReferenceExecute(ref) ==
    LET shifted == add_columns(ref.descriptor, ref.coloffset)
    IN  IF shifted = ValueError THEN ValueError
        ELSE add_rows(shifted, ref.rowoffset)

\* the cells one for loop over a Range object yields
RECURSIVE RangeCellsFrom(_, _)
RangeCellsFrom(r, acc) ==
    LET n == RangeNext(r)
    IN  IF n.value = StopIteration THEN acc
        ELSE RangeCellsFrom(n.range, Append(acc, n.value))

\* DBRange.get_range followed by the iteration of the range it returns
DBRangeCells(content) ==
    RangeCellsFrom(RangeNew(<<DBCellReferenceExecute(content.start),
                              DBCellReferenceExecute(content.end)>>), <<>>)

\* -------------------------------------------------------------- DBColumn
\* how DBColumn.lookup finds a value: "absent" (no data in the cell),
\* "uncastable" (the cast to the column type raises) or "good"
CellFinding(ctype, data) ==
    IF data = EmptyString THEN "absent"
    ELSE IF ~CastRead(ctype, data).ok THEN "uncastable"
    ELSE "good"

ExplicitFinding(ctype, data) ==
    IF ~CastRead(ctype, data).ok THEN "uncastable" ELSE "good"

\* one value of a column: the data appended to _data, or the exception
Resolve(column, finding, data) ==
    IF finding = "good"
    THEN [exc |-> "none", data |-> CastRead(column.type, data).value, log |-> <<>>]
    ELSE handle_action(column.action, column.type)

\* self._data.append of DBColumn.lookup: acc holds _data, the log and the
\* exception that ended the lookup; r is the value resolved
Appended(acc, r) ==
    [exc |-> r.exc,
     data |-> IF r.exc = "none" THEN Append(acc.data, r.data) ELSE acc.data,
     log |-> acc.log \o r.log]

\* one cell of a range: the data read from the sheet is resolved
ResolveCell(column, data) == Resolve(column, CellFinding(column.type, data), data)

\* the inner loop of DBColumn.lookup over the cells of one range
RECURSIVE LookupCells(_, _, _, _)
LookupCells(column, sheet, cells, acc) ==
    IF cells = <<>> \/ acc.exc # "none" THEN acc
    ELSE LookupCells(column, sheet, Tail(cells),
             Appended(acc, ResolveCell(column, SheetRead(sheet, Head(cells)))))

\* the outer loop of DBColumn.lookup over the contents of the column
RECURSIVE LookupContents(_, _, _, _)
LookupContents(column, sheet, contents, acc) ==
    IF contents = <<>> \/ acc.exc # "none" THEN acc
    ELSE LET content == Head(contents)
             next ==
                 IF content.kind = "explicit"
                 THEN Appended(acc, Resolve(column,
                                            ExplicitFinding(column.type, content.data),
                                            content.data))
                 ELSE LookupCells(column, sheet, DBRangeCells(content), acc)
         IN  LookupContents(column, sheet, Tail(contents), next)

\* DBColumn.lookup on a column whose _data is still empty
DBColumnLookup(column, sheet) ==
    LookupContents(column, sheet, column.contents,
                   [exc |-> "none", data |-> <<>>, log |-> <<>>])

\* a slip in extend: a column of one item is taken as a mismatch too
DBColumnExtendStrict(data, length) ==
    IF Len(data) # length
    THEN [exc |-> "SystemExit", data |-> data, log |-> <<"ERROR_EXTENT">>]
    ELSE [exc |-> "none", data |-> data, log |-> <<>>]

\* DBColumn.extend: a column of one item is replicated to length items; a
\* column of another length than length ends the process with sys.exit(0)
DBColumnExtend(data, length) ==
    IF Len(data) = 1 THEN [exc |-> "none", data |-> [k \in 1..length |-> data[1]], log |-> <<>>]
    ELSE IF Len(data) # length
         THEN [exc |-> "SystemExit", data |-> data, log |-> <<"ERROR_EXTENT">>]
    ELSE [exc |-> "none", data |-> data, log |-> <<>>]

\* --------------------------------------------------------------- DBBlock
\* 'name' in self._context
HasModifier(context, name) == \E k \in 1..Len(context) : context[k].name = name

\* one turn of the loops of DBBlock.lookup over its columns: acc holds the
\* _data of the columns done, the log and the exception; r is what the
\* column of this turn is left with
ColumnDone(acc, r) ==
    [exc |-> r.exc, data |-> Append(acc.data, r.data), log |-> acc.log \o r.log]

\* the first loop of DBBlock.lookup: every column is looked up in turn,
\* until one raises
RECURSIVE LookupColumns(_, _, _)
LookupColumns(columns, sh, acc) ==
    IF columns = <<>> \/ acc.exc # "none" THEN acc
    ELSE LookupColumns(Tail(columns), sh,
                       ColumnDone(acc, DBColumnLookup(Head(columns), sh)))

\* the second loop: every column is extended to the longest length
RECURSIVE ExtendColumns(_, _, _)
ExtendColumns(datas, maxlen, acc) ==
    IF datas = <<>> \/ acc.exc # "none" THEN acc
    ELSE ExtendColumns(Tail(datas), maxlen,
                       ColumnDone(acc, DBColumnExtend(Head(datas), maxlen)))

RECURSIVE MaxLength(_)
MaxLength(datas) ==
    IF datas = <<>> THEN 0 ELSE Max(Len(Head(datas)), MaxLength(Tail(datas)))

\* the row at position irow across the columns
RowAt(datas, irow) == [c \in 1..Len(datas) |-> datas[c][irow]]

HasNone(row) == \E c \in 1..Len(row) : row[c] = NoneValue

\* a slip in the third loop: a repeated row is added even under
\* enforce_unique
RECURSIVE AcceptRowsKeepingRepeats(_, _, _, _, _)
AcceptRowsKeepingRepeats(datas, maxlen, irow, context, acc) ==
    IF irow > maxlen THEN acc
    ELSE LET row == RowAt(datas, irow)
             repeated == \E k \in 1..Len(acc.seen) : acc.seen[k] = row
             warned == IF repeated /\ HasModifier(context, "check_duplicates")
                       THEN <<"WARNING_DUPLICATED_ROW">> ELSE <<>>
         IN  IF HasNone(row)
             THEN AcceptRowsKeepingRepeats(datas, maxlen, irow + 1, context, acc)
             ELSE AcceptRowsKeepingRepeats(datas, maxlen, irow + 1, context,
                      [seen |-> Append(acc.seen, row),
                       data |-> Append(acc.data, row),
                       log |-> acc.log \o warned])

\* the third loop: the rows are built position by position; a row with a
\* None is left out; a row seen before is warned about under check_duplicates
\* and left out under enforce_unique. acc.seen lists the rows registered in
\* the dictionary unique, with their repetitions
RECURSIVE AcceptRows(_, _, _, _, _)
AcceptRows(datas, maxlen, irow, context, acc) ==
    IF irow > maxlen THEN acc
    ELSE LET row == RowAt(datas, irow)
             repeated == \E k \in 1..Len(acc.seen) : acc.seen[k] = row
             warned == IF repeated /\ HasModifier(context, "check_duplicates")
                       THEN <<"WARNING_DUPLICATED_ROW">> ELSE <<>>
         IN  IF HasNone(row)
             THEN AcceptRows(datas, maxlen, irow + 1, context, acc)
             ELSE IF repeated /\ HasModifier(context, "enforce_unique")
             THEN AcceptRows(datas, maxlen, irow + 1, context,
                      [seen |-> Append(acc.seen, row),
                       data |-> acc.data,
                       log |-> acc.log \o warned])
             ELSE AcceptRows(datas, maxlen, irow + 1, context,
                      [seen |-> Append(acc.seen, row),
                       data |-> Append(acc.data, row),
                       log |-> acc.log \o warned])

\* the last loop: the modifiers geq, leq, eq and neq compare the number of
\* rows with their argument and warn
RECURSIVE CountWarnings(_, _)
CountWarnings(context, nbrows) ==
    IF context = <<>> THEN <<>>
    ELSE LET m == Head(context)
             w == IF m.name = "geq" /\ m.args[1] > nbrows THEN <<"WARNING_LESS">>
                  ELSE IF m.name = "leq" /\ m.args[1] < nbrows THEN <<"WARNING_GREATER">>
                  ELSE IF m.name = "eq" /\ m.args[1] # nbrows THEN <<"WARNING_NOT_EQUAL">>
                  ELSE IF m.name = "neq" /\ m.args[1] = nbrows THEN <<"WARNING_EQUAL">>
                  ELSE <<>>
         IN  w \o CountWarnings(Tail(context), nbrows)

\* DBBlock.lookup once its columns have been extended: the rows are
\* accepted and counted
LookupRows(block, extended, maxlen) ==
    LET accepted == AcceptRows(extended.data, maxlen, 1, block.context,
                               [seen |-> <<>>, data |-> <<>>, log |-> extended.log])
    IN  IF extended.exc # "none"
        THEN [exc |-> extended.exc, rows |-> <<>>, columns |-> extended.data,
              log |-> extended.log]
        ELSE [exc |-> "none", rows |-> accepted.data, columns |-> extended.data,
              log |-> accepted.log \o CountWarnings(block.context, Len(accepted.data))]

\* DBBlock.lookup once its columns have been looked up: they are extended
\* to the length of the longest
LookupExtended(block, looked) ==
    LET maxlen == MaxLength(looked.data)
    IN  IF looked.exc # "none"
        THEN [exc |-> looked.exc, rows |-> <<>>, columns |-> looked.data, log |-> looked.log]
        ELSE LookupRows(block,
                        ExtendColumns(looked.data, maxlen,
                                      [exc |-> "none", data |-> <<>>, log |-> looked.log]),
                        maxlen)

\* DBBlock.lookup: the exception raised, the rows returned, the _data the
\* columns are left with, and the log
DBBlockLookup(block, sh) ==
    LookupExtended(block,
                   LookupColumns(block.columns, sh,
                                 [exc |-> "none", data |-> <<>>, log |-> <<>>]))

\* --------------------------------------------------------------- DBTable
\* a slip in DBTable.insert: the rows are submitted column by column as
\* they are looked up, so that those found before an exception are submitted
ExecuteManyEager(r) ==
    [exc |-> r.exc,
     submitted |-> IF r.exc = "none" THEN r.rows
                   ELSE IF r.columns = <<>> THEN <<>>
                   ELSE [k \in 1..Len(r.columns[1]) |-> <<r.columns[1][k]>>],
     columns |-> r.columns, log |-> r.log]

DBTableInsertEager(table, sh, spsname, sheetname, override) ==
    LET name == IF ~override /\ table.spreadsheet # "" THEN table.spreadsheet ELSE spsname
    IN  IF name = ""
        THEN [exc |-> "ValueError", submitted |-> <<>>, columns |-> <<>>,
              log |-> <<"ERROR_NO_SPREADSHEET">>]
        ELSE ExecuteManyEager(DBBlockLookup(table.block, sh))

\* cursor.executemany of DBTable.insert: r is what the lookup of the block
\* gave; its rows are submitted (none when it raised)
ExecuteMany(r) ==
    [exc |-> r.exc, submitted |-> r.rows, columns |-> r.columns, log |-> r.log]

\* the spreadsheet DBTable.insert reads: the one named in the table has
\* precedence unless override
SpreadsheetOf(table, spsname, override) ==
    IF ~override /\ table.spreadsheet # "" THEN table.spreadsheet ELSE spsname

\* DBTable.insert: the spreadsheet named in the table has precedence unless
\* override; without any name ValueError; then the block is looked up and
\* only then are its rows submitted with cursor.executemany
DBTableInsert(table, sh, spsname, sheetname, override) ==
    LET name == SpreadsheetOf(table, spsname, override)
    IN  IF name = ""
        THEN [exc |-> "ValueError", submitted |-> <<>>, columns |-> <<>>,
              log |-> <<"ERROR_NO_SPREADSHEET">>]
        ELSE ExecuteMany(DBBlockLookup(table.block, sh))

\* ------------------------------------------------- text of sheet literals
OrdDollar == 36
OrdDot == 46
OrdUnderscore == 95
OrdPlus == 43
OrdMinus == 45
OrdLeftParenthesis == 40
OrdRightParenthesis == 41
OrdComma == 44
OrdNewline == 10

\* the class \s: tab, newline, vertical tab, form feed, return, blank
Whitespace == {9, 10, 11, 12, 13, 32}

\* the exceptions KeyError and OverflowError, as values no string equals
KeyError == <<-3>>
OverflowError == <<-4>>

IsException(value) == value \in {ValueError, KeyError, OverflowError}

\* the elements of the regular expressions of spsstructs: one character,
\* any character but a newline, and the repetitions of a class
Lit(c) == [kind |-> "lit", c |-> c]
AnyChar == [kind |-> "any", c |-> 0]
Words == [kind |-> "words", c |-> 0]
Letters1 == [kind |-> "letters", c |-> 0]
Digits1 == [kind |-> "digits", c |-> 0]
Spaces0 == [kind |-> "spaces", c |-> 0]
Sign01 == [kind |-> "sign", c |-> 0]

InClass(kind, c) ==
    CASE kind = "words" -> IsAlpha(c) \/ c = OrdUnderscore
      [] kind = "letters" -> IsAlpha(c)
      [] kind = "alnum" -> IsAlpha(c) \/ IsDigit(c) \/ c = OrdUnderscore
      [] kind = "digits" -> IsDigit(c)
      [] kind = "spaces" -> c \in Whitespace
      [] kind = "sign" -> c \in {OrdPlus, OrdMinus}
      [] OTHER -> FALSE

\* length of the longest run of characters of a class in s from i on
RECURSIVE RunLength(_, _, _)
RunLength(kind, s, i) ==
    IF i <= Len(s) /\ InClass(kind, s[i]) THEN 1 + RunLength(kind, s, i + 1) ELSE 0

\* the position after the match of the expression pat at position i of s,
\* 0 when it does not match there. Every repetition of these expressions is
\* followed by a character outside its class, so the longest run is the
\* only one a match can take
RECURSIVE MatchFrom(_, _, _)
MatchFrom(pat, s, i) ==
    IF pat = <<>> THEN i
    ELSE LET e == Head(pat)
             run == RunLength(e.kind, s, i)
         IN  CASE e.kind = "lit" ->
                      IF i <= Len(s) /\ s[i] = e.c
                      THEN MatchFrom(Tail(pat), s, i + 1) ELSE 0
               [] e.kind = "any" ->
                      IF i <= Len(s) /\ s[i] # OrdNewline
                      THEN MatchFrom(Tail(pat), s, i + 1) ELSE 0
               [] e.kind = "spaces" -> MatchFrom(Tail(pat), s, i + run)
               [] e.kind = "sign" -> MatchFrom(Tail(pat), s, i + Min(run, 1))
               [] OTHER ->
                      IF run > 0 THEN MatchFrom(Tail(pat), s, i + run) ELSE 0

\* re.finditer: the texts of the leftmost non-overlapping matches of pat in
\* s, from position i on; notafter is the character of a negative
\* lookbehind, 0 when there is none
RECURSIVE FindIter(_, _, _, _)
FindIter(pat, s, i, notafter) ==
    IF i > Len(s) THEN <<>>
    ELSE LET e == IF notafter # 0 /\ i > 1 /\ s[i - 1] = notafter
                  THEN 0 ELSE MatchFrom(pat, s, i)
         IN  IF e = 0 THEN FindIter(pat, s, i + 1, notafter)
             ELSE <<SubSeq(s, i, e - 1)>> \o FindIter(pat, s, e, notafter)

\* re.sub: s with every leftmost non-overlapping match of pat replaced
RECURSIVE Sub(_, _, _, _)
Sub(pat, repl, s, i) ==
    IF i > Len(s) THEN <<>>
    ELSE LET e == MatchFrom(pat, s, i)
         IN  IF e = 0 THEN <<s[i]>> \o Sub(pat, repl, s, i + 1)
             ELSE repl \o Sub(pat, repl, s, e)

\* the expression a text of letters and digits is
LitPattern(text) == [k \in 1..Len(text) |-> Lit(text[k])]

\* the expression a variable name is when written into a pattern: its dots
\* stand for any character
NamePattern(name) ==
    <<Lit(OrdDollar)>>
        \o [k \in 1..Len(name) |-> IF name[k] = OrdDot THEN AnyChar ELSE Lit(name[k])]

\* [a-zA-Z_]+\.[a-zA-Z_]+\.[a-zA-Z_]+
VariablePattern == <<Words, Lit(OrdDot), Words, Lit(OrdDot), Words>>

\* \s*\+\s*\(\s*
OffsetOpening ==
    <<Spaces0, Lit(OrdPlus), Spaces0, Lit(OrdLeftParenthesis), Spaces0>>

\* \s*\+\s*\(\s*[\+-]?\d+,\s*[\+-]?\d+\)
OffsetPattern ==
    OffsetOpening \o <<Sign01, Digits1, Lit(OrdComma), Spaces0, Sign01, Digits1,
                       Lit(OrdRightParenthesis)>>

\* int() of a number with an optional sign
IntOfSigned(text) ==
    IF Head(text) = OrdMinus THEN 0 - IntOfDigits(Tail(text))
    ELSE IF Head(text) = OrdPlus THEN IntOfDigits(Tail(text))
    ELSE IntOfDigits(text)

\* SPSCellReference.execute: an explicit descriptor is the cell, any other
\* is looked up in the context (ValueError when it is not there); then the
\* offsets are applied
SPSCellReferenceExecute(ref, context) ==
    LET cell == IF CellMatches(ref.descriptor) THEN ref.descriptor
                ELSE IF ref.descriptor \in DOMAIN context THEN context[ref.descriptor]
                ELSE ValueError
        shifted == IF cell = ValueError THEN ValueError
                   ELSE add_columns(cell, ref.coloffset)
    IN  IF shifted = ValueError THEN ValueError
        ELSE add_rows(shifted, ref.rowoffset)

\* drag: every cell name not preceded by '$' that is found in the string
\* given is moved by the offset, and written over every occurrence of its
\* text in the string as it is by then
RECURSIVE DragEach(_, _, _)
DragEach(matches, offset, string) ==
    IF matches = <<>> THEN string
    ELSE LET moved == add_columns(Head(matches), offset[1])
             cell == IF moved = ValueError THEN ValueError
                     ELSE add_rows(moved, offset[2])
         IN  IF cell = ValueError THEN ValueError
             ELSE DragEach(Tail(matches), offset,
                           Sub(LitPattern(Head(matches)), cell, string, 1))

drag(offset, string) ==
    DragEach(FindIter(<<Letters1, Digits1>>, string, 1, OrdDollar), offset, string)

\* evaluate: every '$' variable followed by an offset that is found in the
\* string given is executed as a cell reference, and written over every
\* match of its text in the string as it is by then
RECURSIVE EvaluateEach(_, _, _, _)
EvaluateEach(matches, pattern, repl, string) ==
    IF matches = <<>> THEN string
    ELSE LET text == Tail(Head(matches))
             nameend == MatchFrom(pattern, text, 1)
             name == SubSeq(text, 1, nameend - 1)
             colstart == MatchFrom(OffsetOpening, text, nameend)
             colend == MatchFrom(<<Sign01, Digits1>>, text, colstart)
             col == SubSeq(text, colstart, colend - 1)
             rowstart == MatchFrom(<<Lit(OrdComma), Spaces0>>, text, colend)
             rowend == MatchFrom(<<Sign01, Digits1>>, text, rowstart)
             row == SubSeq(text, rowstart, rowend - 1)
             result == SPSCellReferenceExecute(
                           [descriptor |-> name, coloffset |-> IntOfSigned(col),
                            rowoffset |-> IntOfSigned(row)], repl)
             written == NamePattern(name) \o OffsetOpening \o LitPattern(col)
                            \o <<Lit(OrdComma), Spaces0>> \o LitPattern(row)
                            \o <<Lit(OrdRightParenthesis)>>
         IN  IF result = ValueError THEN ValueError
             ELSE EvaluateEach(Tail(matches), pattern, repl,
                               Sub(written, result, string, 1))

evaluate(pattern, repl, string) ==
    EvaluateEach(FindIter(<<Lit(OrdDollar)>> \o pattern \o OffsetPattern, string, 1, 0),
                 pattern, repl, string)

\* substitute: every '$' variable that is found in the string given is
\* replaced by its value in repl (KeyError when it has none), over every
\* match of its text in the string as it is by then
RECURSIVE SubstituteEach(_, _, _)
SubstituteEach(matches, repl, string) ==
    IF matches = <<>> THEN string
    ELSE LET name == Tail(Head(matches))
         IN  IF name \notin DOMAIN repl THEN KeyError
             ELSE SubstituteEach(Tail(matches), repl,
                                 Sub(NamePattern(name), repl[name], string, 1))

substitute(pattern, repl, string) ==
    SubstituteEach(FindIter(<<Lit(OrdDollar)>> \o pattern, string, 1, 0), repl, string)

\* ---------------------------------------------------------- DynamicArray
\* DynamicArray.__setitem__: rows are added up to the row of the key, the
\* row is padded with None up to its column, and the value is stored
DynamicArraySet(data, key, value) ==
    LET cr == get_columnrow(key)
        columnindex == get_columnindex(cr[1])
        rows == IF cr[2] <= Len(data) THEN data
                ELSE data \o [k \in 1..(cr[2] - Len(data)) |-> <<>>]
        row == IF cr[2] = 0 THEN Len(rows) ELSE cr[2]
        padded == IF columnindex < Len(rows[row]) THEN rows[row]
                  ELSE rows[row]
                           \o [k \in 1..(1 + columnindex - Len(rows[row])) |-> NoneValue]
    IN  [rows EXCEPT ![row] = [padded EXCEPT ![columnindex + 1] = value]]

\* the addresses <<column index, row>> that hold a content
Filled(data) ==
    {<<columnindex, row>> \in (0..MaxLength(data)) \X (1..Len(data)) :
        /\ columnindex < Len(data[row])
        /\ data[row][columnindex + 1] # NoneValue}

\* ------------------------------------------------------------ SPSLiteral
SPSCellContent(data, ctype, attributes) ==
    [data |-> data, type |-> ctype, attributes |-> attributes]

\* sys.maxsize, above every column index and row (its value on a 32-bit
\* build)
sys_maxsize == 2147483647

\* the names a named literal registers in the context
LiteralPrefix == <<108, 105, 116, 101, 114, 97, 108, 46>>
CornerNW == <<110, 119>>
CornerNE == <<110, 101>>
CornerSW == <<115, 119>>
CornerSE == <<115, 101>>
SideNorth == <<110, 111, 114, 116, 104>>
SideSouth == <<115, 111, 117, 116, 104>>
SideWest == <<119, 101, 115, 116>>
SideEast == <<101, 97, 115, 116>>

\* get_columnname((left + right) / 2): the quotient is a float; with a
\* fractional part the loop never reaches zero and math.pow overflows
ColumnNameOfHalf(sum) ==
    IF sum % 2 = 0 THEN get_columnname(sum \div 2) ELSE OverflowError

\* one turn of the loop of SPSLiteral.execute once the content has been
\* dragged: the corners are updated and the content is stored at the cell
StoreCell(command, acc, cell, dragged) ==
    LET cr == get_columnrow(cell)
        stored == IF command.content.type \in {"text", "formula"}
                  THEN StrValue(dragged) ELSE dragged
    IN  IF command.content.type = "formula" /\ dragged = ValueError
        THEN [acc EXCEPT !.exc = "ValueError"]
        ELSE [exc |-> "none", value |-> dragged, count |-> acc.count + 1,
              data |-> DynamicArraySet(acc.data, cell,
                           SPSCellContent(stored, command.content.type,
                                          command.content.attributes)),
              left |-> Min(get_columnindex(cr[1]), acc.left),
              right |-> Max(get_columnindex(cr[1]), acc.right),
              top |-> Min(cr[2], acc.top),
              bottom |-> Max(cr[2], acc.bottom)]

\* one turn of the loop of SPSLiteral.execute: a formula is dragged by the
\* offset of the cell from the start of the range
WriteCell(command, start, acc, cell) ==
    StoreCell(command, acc, cell,
              IF command.content.type = "formula"
              THEN drag(sub_cells(start, cell), acc.value)
              ELSE acc.value)

\* a slip in the loop of SPSLiteral.execute: with a direction the literal
\* is replicated from the first cell of the range to the right or downwards
RECURSIVE WriteCellsInDirection(_, _, _)
WriteCellsInDirection(command, rnge, acc) ==
    LET n == RangeNext(rnge)
    IN  IF acc.exc # "none" \/ n.value = StopIteration THEN acc
        ELSE WriteCellsInDirection(command, n.range,
                 WriteCell(command, rnge.start, acc,
                           IF command.direction = "right"
                           THEN add_columns(rnge.start, acc.count)
                           ELSE IF command.direction = "down"
                           THEN add_rows(rnge.start, acc.count)
                           ELSE n.value))

\* the loop of SPSLiteral.execute over the cells of the range, until the
\* range is exhausted or a cell raises
RECURSIVE WriteCells(_, _, _)
WriteCells(command, rnge, acc) ==
    LET n == RangeNext(rnge)
    IN  IF acc.exc # "none" \/ n.value = StopIteration THEN acc
        ELSE WriteCells(command, n.range,
                        WriteCell(command, rnge.start, acc, n.value))

\* the context after a named literal has registered its corners, and its
\* sides when the middle column has a name
Registered(context, name, w, withsides) ==
    LET prefix == LiteralPrefix \o name \o <<OrdDot>>
        corners == (prefix \o CornerNW :> get_columnname(w.left) \o Str(w.top))
                   @@ (prefix \o CornerNE :> get_columnname(w.right) \o Str(w.top))
                   @@ (prefix \o CornerSW :> get_columnname(w.left) \o Str(w.bottom))
                   @@ (prefix \o CornerSE :> get_columnname(w.right) \o Str(w.bottom))
        sides == (prefix \o SideNorth :> ColumnNameOfHalf(w.left + w.right) \o Str(w.top))
                 @@ (prefix \o SideSouth :>
                         ColumnNameOfHalf(w.left + w.right) \o Str(w.bottom))
                 @@ (prefix \o SideWest :>
                         get_columnname(w.left) \o Str((w.top + w.bottom) \div 2))
                 @@ (prefix \o SideEast :>
                         get_columnname(w.right) \o Str((w.top + w.bottom) \div 2))
    IN  IF withsides THEN sides @@ corners @@ context ELSE corners @@ context

\* the content of a literal: in a text or a formula the variables with an
\* offset are evaluated and then the others are substituted
Substituted(context, evaluated) ==
    IF IsException(evaluated) THEN evaluated
    ELSE substitute(VariablePattern, context, evaluated)

LiteralValue(command, context) ==
    IF command.content.type \in {"text", "formula"}
    THEN Substituted(context, evaluate(VariablePattern, context, command.content.data.v))
    ELSE command.content.data

\* SPSLiteral.execute after its loop: a named literal registers its corners
\* and sides in the context
LiteralWritten(command, context, w) ==
    IF w.exc # "none"
    THEN [exc |-> w.exc, data |-> w.data, context |-> context]
    ELSE IF command.name = <<>>
    THEN [exc |-> "none", data |-> w.data, context |-> context]
    ELSE IF ColumnNameOfHalf(w.left + w.right) = OverflowError
    THEN [exc |-> "OverflowError", data |-> w.data,
          context |-> Registered(context, command.name, w, FALSE)]
    ELSE [exc |-> "none", data |-> w.data,
          context |-> Registered(context, command.name, w, TRUE)]

\* SPSLiteral.execute once the corners of its range and its content have
\* been computed: an exception in either leaves it, else the loop writes
LiteralOver(command, data, context, start, end, value) ==
    IF start = ValueError \/ end = ValueError
    THEN [exc |-> "ValueError", data |-> data, context |-> context]
    ELSE IF command.content.type \in {"text", "formula"} /\ IsException(value)
    THEN [exc |-> IF value = KeyError THEN "KeyError" ELSE "ValueError",
          data |-> data, context |-> context]
    ELSE LiteralWritten(command, context,
             WriteCells(command, RangeNew(<<start, end>>),
                        [exc |-> "none", value |-> value, count |-> 0, data |-> data,
                         left |-> sys_maxsize, right |-> 0,
                         top |-> sys_maxsize, bottom |-> 0]))

\* SPSLiteral.execute: the exception raised, the array and the context
SPSLiteralExecute(command, data, context) ==
    LiteralOver(command, data, context,
                SPSCellReferenceExecute(command.range[1], context),
                SPSCellReferenceExecute(command.range[2], context),
                LiteralValue(command, context))

\* ---------------------------------------------------------------- SPSQuery
\* "query."
QueryPrefix == <<113, 117, 101, 114, 121, 46>>

\* \d{1,4}-\d{1,2}-\d{1,2} at the start of a text
DatePrefix(s) ==
    \E a \in 1..4, b \in 1..2 :
        /\ Len(s) >= a + b + 3
        /\ \A k \in 1..a : IsDigit(s[k])
        /\ s[a + 1] = OrdMinus
        /\ \A k \in (a + 2)..(a + b + 1) : IsDigit(s[k])
        /\ s[a + b + 2] = OrdMinus
        /\ IsDigit(s[a + b + 3])

\* get_type: the type of a value the database returns; IndexError on the
\* empty text, whose first character is asked for
get_type(content) ==
    IF content.t = "str"
    THEN IF DatePrefix(content.v) THEN "date"
         ELSE IF content.v = <<>> THEN "IndexError"
         ELSE IF content.v[1] = 61 THEN "formula"
         ELSE "text"
    ELSE IF content.t = "float" THEN "real"
    ELSE IF content.t = "int" THEN "integer"
    ELSE "unknown"

\* cast_value: a text that starts with '=' is no number; a number becomes a
\* formula with '=' before it; a text becomes the date it spells; an unknown
\* type raises TypeError
cast_value(value, ctype) ==
    IF ctype = "text" THEN PyStr(value)
    ELSE IF ctype = "integer"
    THEN IF value.t = "str" /\ value.v # <<>> /\ value.v[1] = 61
         THEN [ok |-> FALSE, value |-> value] ELSE PyInt(value)
    ELSE IF ctype = "real"
    THEN IF value.t = "str" /\ value.v # <<>> /\ value.v[1] = 61
         THEN [ok |-> FALSE, value |-> value] ELSE PyFloat(value)
    ELSE IF ctype = "formula"
    THEN IF value.t = "int" THEN [ok |-> TRUE, value |-> StrValue(<<61>> \o Str(value.v))]
         ELSE IF value.t = "str" /\ value.v[1] # 61
         THEN [ok |-> TRUE, value |-> StrValue(<<61>> \o value.v)]
         ELSE [ok |-> TRUE, value |-> value]
    ELSE IF ctype = "date"
    THEN [ok |-> value.t = "str", value |-> [t |-> "date", v |-> value.v]]
    ELSE [ok |-> FALSE, value |-> value]

\* Range.__init__ on two corners that were computed: ValueError, as the
\* start of no range, when one of them is no cell
RangeOf(start, end) ==
    IF CellMatches(start) /\ CellMatches(end) THEN RangeNew(<<start, end>>)
    ELSE [start |-> ValueError]

\* Range.add_rows and Range.add_columns: the range of the two corners moved
RangeAddRows(r, value) == RangeOf(add_rows(r.start, value), add_rows(r.end, value))

RangeAddColumns(r, value) ==
    RangeOf(add_columns(r.start, value), add_columns(r.end, value))

\* one cell of the inner loop of SPSQuery.execute once the value of the
\* tuple has been typed and cast: the content is stored at the cell
QueryStore(command, acc, cell, ctype, cast) ==
    IF ctype = "IndexError" THEN [acc EXCEPT !.exc = "IndexError"]
    ELSE IF ~cast.ok THEN [acc EXCEPT !.exc = "TypeError"]
    ELSE [acc EXCEPT !.data = DynamicArraySet(acc.data, cell,
                                  SPSCellContent(cast.value, ctype,
                                                 command.content.attributes))]

\* one cell of the inner loop: the corners are updated, and the i-th value
\* of the tuple (i from 1 here) is written; IndexError when the tuple has
\* fewer values than the range has cells
QueryCell(command, acc, cell, cr, value, i) ==
    IF cr[1] = ValueError THEN [acc EXCEPT !.exc = "ValueError"]
    ELSE IF i > Len(value) THEN [acc EXCEPT !.exc = "IndexError"]
    ELSE QueryStore(command,
                    [acc EXCEPT !.left = Min(get_columnindex(cr[1]), acc.left),
                                !.right = Max(get_columnindex(cr[1]), acc.right),
                                !.top = Min(cr[2], acc.top),
                                !.bottom = Max(cr[2], acc.bottom)],
                    cell, get_type(value[i]), cast_value(value[i], get_type(value[i])))

\* the inner loop of SPSQuery.execute over the cells of the range
RECURSIVE QueryCells(_, _, _, _, _)
QueryCells(command, cells, value, i, acc) ==
    IF i > Len(cells) \/ acc.exc # "none" THEN acc
    ELSE QueryCells(command, cells, value, i + 1,
                    QueryCell(command, acc, cells[i], get_columnrow(cells[i]), value, i))

\* the range after one tuple: it slides downwards with the direction down
\* and to the right with any other, by its own size
Slid(command, rnge) ==
    IF command.direction = "down" THEN RangeAddRows(rnge, number_of_rows(rnge))
    ELSE RangeAddColumns(rnge, number_of_columns(rnge))

\* the outer loop of SPSQuery.execute over the tuples of the result; the
\* range slides after every tuple, the last one too
RECURSIVE QueryTuples(_, _, _, _)
QueryTuples(command, rnge, result, acc) ==
    IF acc.exc # "none" THEN acc
    ELSE IF rnge.start = ValueError THEN [acc EXCEPT !.exc = "ValueError"]
    ELSE IF result = <<>> THEN acc
    ELSE QueryTuples(command, Slid(command, rnge), Tail(result),
                     QueryCells(command, RangeCellsFrom(rnge, <<>>), Head(result), 1, acc))

\* the context after a query has registered its corners and its sides; the
\* middle column is the largest integer below the half
QueryRegistered(context, name, w) ==
    LET prefix == QueryPrefix \o name \o <<OrdDot>>
    IN  (prefix \o SideNorth :> get_columnname((w.left + w.right) \div 2) \o Str(w.top))
        @@ (prefix \o SideSouth :>
                get_columnname((w.left + w.right) \div 2) \o Str(w.bottom))
        @@ (prefix \o SideWest :> get_columnname(w.left) \o Str((w.top + w.bottom) \div 2))
        @@ (prefix \o SideEast :> get_columnname(w.right) \o Str((w.top + w.bottom) \div 2))
        @@ (prefix \o CornerNW :> get_columnname(w.left) \o Str(w.top))
        @@ (prefix \o CornerNE :> get_columnname(w.right) \o Str(w.top))
        @@ (prefix \o CornerSW :> get_columnname(w.left) \o Str(w.bottom))
        @@ (prefix \o CornerSE :> get_columnname(w.right) \o Str(w.bottom))
        @@ context

\* SPSQuery.execute after its loops: the connection is left open, and the
\* corners and sides are registered whatever the name
QueryWritten(command, context, w) ==
    IF w.exc # "none"
    THEN [exc |-> w.exc, data |-> w.data, context |-> context, conn |-> "open"]
    ELSE [exc |-> "none", data |-> w.data,
          context |-> QueryRegistered(context, command.name, w), conn |-> "open"]

\* SPSQuery.execute once the corners of its range have been computed: the
\* database of the query has precedence over the one given, and without
\* any ValueError is raised; then the connection is opened, the query is
\* run (fetched.exc is the exception of sqlite3 when it rejects it) and the
\* tuples fetched are written
QueryOver(command, data, context, start, end, dbname, fetched) ==
    IF start = ValueError \/ end = ValueError
    THEN [exc |-> "ValueError", data |-> data, context |-> context, conn |-> "none"]
    ELSE IF (IF command.dbref # "" THEN command.dbref ELSE dbname) = ""
    THEN [exc |-> "ValueError", data |-> data, context |-> context, conn |-> "none"]
    ELSE IF fetched.exc # "none"
    THEN [exc |-> fetched.exc, data |-> data, context |-> context, conn |-> "open"]
    ELSE QueryWritten(command, context,
             QueryTuples(command, RangeNew(<<start, end>>), fetched.rows,
                         [exc |-> "none", data |-> data,
                          left |-> sys_maxsize, right |-> 0,
                          top |-> sys_maxsize, bottom |-> 0]))

\* SPSQuery.execute: the exception raised, the array, the context, and the
\* connection it opened
SPSQueryExecute(command, data, context, dbname, fetched) ==
    QueryOver(command, data, context,
              SPSCellReferenceExecute(command.range[1], context),
              SPSCellReferenceExecute(command.range[2], context),
              dbname, fetched)

\* ---------------------------------------------------------- SPSSpreadsheet
\* _default_handler of SPSSpreadsheet.execute: the external value when there
\* is no internal one, the internal one when there is no external one,
\* override decides when both are there; ValueError when there is a message
\* and no value
default_handler(external, internal, override, msg) ==
    LET value == IF internal = "" THEN external
                 ELSE IF external = "" THEN internal
                 ELSE IF override THEN external ELSE internal
    IN  [exc |-> IF msg /\ value = "" THEN "ValueError" ELSE "none", value |-> value]

\* what a command leaves of the array and the context
Taken(r) == [exc |-> r.exc, data |-> r.data, context |-> r.context]

\* the loop of SPSRegistry.execute over literals, until one raises
RECURSIVE RunLiterals(_, _)
RunLiterals(commands, acc) ==
    IF commands = <<>> \/ acc.exc # "none" THEN acc
    ELSE RunLiterals(Tail(commands),
                     Taken(SPSLiteralExecute(Head(commands), acc.data, acc.context)))

\* the end of SPSSpreadsheet.execute: the sheet is "Unnamed" without a
\* name, the registry is executed, and the name of the spreadsheet is
\* returned with the contents of the sheet
SheetReturned(spsref, sheetnameref, run) ==
    [exc |-> run.exc, spsname |-> spsref,
     sheetname |-> IF sheetnameref = "" THEN "Unnamed" ELSE sheetnameref,
     contents |-> run.data]

\* SPSSpreadsheet.execute: the database, the spreadsheet and the sheet are
\* determined in turn, the first two with a message
SPSSpreadsheetExecute(sps, dbname, spsname, sheetname, override) ==
    IF default_handler(dbname, sps.dbref, override, TRUE).exc # "none"
         \/ default_handler(spsname, sps.spsname, override, TRUE).exc # "none"
    THEN [exc |-> "ValueError", spsname |-> "", sheetname |-> "", contents |-> <<>>]
    ELSE SheetReturned(default_handler(spsname, sps.spsname, override, TRUE).value,
                       default_handler(sheetname, sps.sheetname, override, FALSE).value,
                       RunLiterals(sps.registry,
                                   [exc |-> "none", data |-> <<<<>>>>, context |-> <<>>]))

\* ------------------------------------------------------------------ state
VARIABLES
    colStage,    \* position of the column conversion: what has been computed
    colIndex0,   \* the index given (-1 when a name was given)
    colName0,    \* the name given (<<>> when an index was given)
    colName,     \* the last result of get_columnname
    colIndex,    \* the last result of get_columnindex
    interval,    \* the two cell names a Range is built from
    ranges,      \* the Range objects: "ab" built from [a, b], "ba" from [b, a]
    turn,        \* the object being iterated: "ab", then "ba", then "done"
    yielded,     \* the cells returned by __next__ in the running loop
    passes,      \* per object, the cells of each loop run to StopIteration
    shiftStage,  \* position of the shift there and back: "given", "there", "back"
    shiftAxis,   \* "columns" for add_columns, "rows" for add_rows
    shiftCell,   \* the cell given
    shiftBy,     \* the number of columns or rows k
    shiftThere,  \* the result of the first call, with k
    shiftBack,   \* the result of the second call, with -k
    column,      \* the DBColumn looked up: name, contents, type and action
    sheet,       \* the sheet of the spreadsheet: <<column index, row>> -> value
    lookupStage, \* "ready" before DBColumn.lookup, "done" after
    lookup,      \* what the lookup left: _data, the log, the exception
    database,    \* the expressions of the DBDatabase: tables and SQL statements
    spsname,     \* the spreadsheet named in the command line ("" when none)
    override,    \* whether the command line overrides the names in the tables
    dbStage,     \* position of DBDatabase.insert: "start", "loop", "done", "aborted"
    dbNext,      \* the expression the loop of DBDatabase.insert is at
    dbConn,      \* the connection: "none", "open", "closed"
    dbPending,   \* what the cursor has executed and the connection not committed
    dbCommitted, \* what the connection has committed
    dbColumns,   \* per expression, the _data its columns are left with
    dbLog,       \* per expression, the lines logged while it was processed
    dbExc,       \* the exception that ended the run ("none" when none)
    registry,    \* the commands of the SPSRegistry, in order
    regStage,    \* position of SPSRegistry.execute: "start", "loop", "done", "aborted"
    regNext,     \* the command the loop of SPSRegistry.execute is at
    regContents, \* the _data of the DynamicArray the commands write into
    regContext,  \* the context: variable name -> cell name
    regExc,      \* the exception that ended the execution ("none" when none)
    dbname,      \* the database given to SPSRegistry.execute ("" when none)
    fetched,     \* what sqlite3 answers to the text of the query
    regConns,    \* the connections the queries opened: "open" or "closed"
    text,        \* the string given to substitute
    bindings,    \* the dictionary given to substitute: variable name -> cell name
    textStage,   \* "given" before substitute is called, "done" after
    textResult,  \* what substitute returned, KeyError when it raised it
    itemplate,   \* the PRGTemplate: its name, its arguments and its body
    tplText,     \* the text given to subst_template
    tplStage,    \* "given" before subst_template is called, "done" after
    tplResult,   \* what subst_template returned, ValueError when it raised it
    declared,    \* what the specification text declares, in the order of the text
    parseStage,  \* position of the parser: "parsing", "returned", "exited"
    parseNext,   \* the declaration the parser is at
    literal_table, \* SPSParser._literal_table: literal name -> value
    query_table, \* SPSParser._query_table: query name -> text of the query
    parseLog,    \* what the parser has logged
    exitStatus,  \* the status sys.exit ended the process with, -1 while it runs
    given,       \* the arguments of the call: dbname, spsname, sheetname, override
    embedded,    \* the names the specification text holds: dbref, spsname, sheetname
    tableResult, \* what DBTable.insert did: the exception, the spreadsheet it read
    sheetResult, \* what SPSSpreadsheet.execute did: the exception, what it returned
    travGrid,    \* the sheet a DBRange is resolved on: its bounds and its cells
    travRefs,    \* the DBCellReference objects start and end of the DBRange
    travPhase,   \* which reference get_range is executing: "start", "end",
                 \* then "done" (it returned) or "raised"
    travStage,   \* position in _traverse_cells: "enter" or "scan" (in the loop)
    travCurrent, \* the local variable current of _traverse_cells
    travOut,     \* per reference: the exception, the cell and the cells read
    travRange,   \* DBRange._range
    findContents,  \* PRGProcessor._contents, the text of the configuration file
    findFrom,      \* where re.finditer resumes in _contents (from 1)
    findIndex,     \* index of _find_templates, a position of _contents from 0
    findTemplates, \* PRGProcessor._templates
    findText,      \* PRGProcessor._text
    findStage,     \* position in _find_templates: "scan", "done" or "aborted"
    book,          \* SPSBook._book, the spreadsheets of the book
    bookGiven,     \* the arguments of SPSBook.execute
    bookNext,      \* the spreadsheet the first loop of SPSBook.execute is at
    bookFiles,     \* files, in the order of its keys: the sheets of each file
    bookWritten,   \* the files written so far, with the writer used
    bookStage      \* position in SPSBook.execute: "execute", "done" or "aborted"

colVars == <<colStage, colIndex0, colName0, colName, colIndex>>
rangeVars == <<interval, ranges, turn, yielded, passes>>
shiftVars == <<shiftStage, shiftAxis, shiftCell, shiftBy, shiftThere, shiftBack>>

lookupVars == <<column, sheet, lookupStage, lookup>>

insertVars == <<database, spsname, override, dbStage, dbNext, dbConn, dbPending,
                dbCommitted, dbColumns, dbLog, dbExc>>

queryVars == <<dbname, fetched, regConns>>

registryVars == <<registry, regStage, regNext, regContents, regContext, regExc,
                  queryVars>>

textVars == <<text, bindings, textStage, textResult>>

templateVars == <<itemplate, tplText, tplStage, tplResult>>

parseVars == <<declared, parseStage, parseNext, literal_table, query_table, parseLog,
               exitStatus>>

nameVars == <<given, embedded, tableResult, sheetResult>>
travVars == <<travGrid, travRefs, travPhase, travStage, travCurrent, travOut, travRange>>
findVars == <<findContents, findFrom, findIndex, findTemplates, findText, findStage>>
bookVars == <<book, bookGiven, bookNext, bookFiles, bookWritten, bookStage>>

vars == <<colVars, rangeVars, shiftVars, lookupVars, insertVars, registryVars,
         textVars,
         templateVars,
         parseVars,
         nameVars,
         travVars,
         findVars,
         bookVars>>

\* the parts of the state a specification does not use
ColIdle ==
    /\ colStage = "idle"
    /\ colIndex0 = -1
    /\ colName0 = <<>>
    /\ colName = <<>>
    /\ colIndex = -1

RangeIdle ==
    /\ interval = <<>>
    /\ ranges = <<>>
    /\ turn = "idle"
    /\ yielded = <<>>
    /\ passes = <<>>

ShiftIdle ==
    /\ shiftStage = "idle"
    /\ shiftAxis = "none"
    /\ shiftCell = <<>>
    /\ shiftBy = 0
    /\ shiftThere = <<>>
    /\ shiftBack = <<>>

LookupIdle ==
    /\ column = <<>>
    /\ sheet = <<>>
    /\ lookupStage = "idle"
    /\ lookup = <<>>

InsertIdle ==
    /\ database = <<>>
    /\ spsname = ""
    /\ override = FALSE
    /\ dbStage = "idle"
    /\ dbNext = 0
    /\ dbConn = "none"
    /\ dbPending = <<>>
    /\ dbCommitted = <<>>
    /\ dbColumns = <<>>
    /\ dbLog = <<>>
    /\ dbExc = "none"

\* no database given, nothing fetched, no connection opened
QueryIdle ==
    /\ dbname = ""
    /\ fetched = [exc |-> "none", rows |-> <<>>]
    /\ regConns = <<>>

RegistryIdle ==
    /\ registry = <<>>
    /\ regStage = "idle"
    /\ regNext = 0
    /\ regContents = <<>>
    /\ regContext = <<>>
    /\ regExc = "none"
    /\ QueryIdle

TextIdle ==
    /\ text = <<>>
    /\ bindings = <<>>
    /\ textStage = "idle"
    /\ textResult = <<>>

TemplateIdle ==
    /\ itemplate = <<>>
    /\ tplText = <<>>
    /\ tplStage = "idle"
    /\ tplResult = <<>>

ParseIdle ==
    /\ declared = <<>>
    /\ parseStage = "idle"
    /\ parseNext = 0
    /\ literal_table = <<>>
    /\ query_table = <<>>
    /\ parseLog = <<>>
    /\ exitStatus = -1

NameIdle ==
    /\ given = <<>>
    /\ embedded = <<>>
    /\ tableResult = <<>>
    /\ sheetResult = <<>>

TraverseIdle ==
    /\ travGrid = <<>>
    /\ travRefs = <<>>
    /\ travPhase = "idle"
    /\ travStage = "idle"
    /\ travCurrent = <<>>
    /\ travOut = <<>>
    /\ travRange = <<>>

FindIdle ==
    /\ findContents = <<>>
    /\ findFrom = 0
    /\ findIndex = 0
    /\ findTemplates = <<>>
    /\ findText = <<>>
    /\ findStage = "idle"

BookIdle ==
    /\ book = <<>>
    /\ bookGiven = <<>>
    /\ bookNext = 0
    /\ bookFiles = <<>>
    /\ bookWritten = <<>>
    /\ bookStage = "idle"

\* -------------------------------------------------- column name conversion
Letters == OrdA .. OrdZ

\* all non-empty names over A..Z of at most MaxNameLen letters
ColumnNames == UNION {[1..n -> Letters] : n \in 1..MaxNameLen}

ColInit ==
    /\ RangeIdle
    /\ ShiftIdle
    /\ LookupIdle
    /\ InsertIdle
    /\ RegistryIdle
    /\ TextIdle
    /\ TemplateIdle
    /\ ParseIdle
    /\ NameIdle
    /\ TraverseIdle
    /\ FindIdle
    /\ BookIdle
    /\ colName = <<>>
    /\ colIndex = -1
    /\ \/ /\ colStage = "index"
          /\ colIndex0 \in 0..MaxIndex
          /\ colName0 = <<>>
       \/ /\ colStage = "name"
          /\ colIndex0 = -1
          /\ colName0 \in ColumnNames

\* get_columnname applied to the given index
NameOfIndex ==
    /\ colStage = "index"
    /\ colName' = get_columnname(colIndex0)
    /\ colStage' = "index-name"
    /\ UNCHANGED <<colIndex0, colName0, colIndex>>
    /\ UNCHANGED <<rangeVars, shiftVars, lookupVars, insertVars, registryVars, textVars,
                   templateVars, parseVars, nameVars, travVars, findVars, bookVars>>

\* get_columnindex applied to the name just computed
IndexOfNameOfIndex ==
    /\ colStage = "index-name"
    /\ colIndex' = get_columnindex(colName)
    /\ colStage' = "index-name-index"
    /\ UNCHANGED <<colIndex0, colName0, colName>>
    /\ UNCHANGED <<rangeVars, shiftVars, lookupVars, insertVars, registryVars, textVars,
                   templateVars, parseVars, nameVars, travVars, findVars, bookVars>>

\* get_columnindex applied to the given name
IndexOfName ==
    /\ colStage = "name"
    /\ colIndex' = get_columnindex(colName0)
    /\ colStage' = "name-index"
    /\ UNCHANGED <<colIndex0, colName0, colName>>
    /\ UNCHANGED <<rangeVars, shiftVars, lookupVars, insertVars, registryVars, textVars,
                   templateVars, parseVars, nameVars, travVars, findVars, bookVars>>

\* get_columnname applied to the index just computed
NameOfIndexOfName ==
    /\ colStage = "name-index"
    /\ colName' = get_columnname(colIndex)
    /\ colStage' = "name-index-name"
    /\ UNCHANGED <<colIndex0, colName0, colIndex>>
    /\ UNCHANGED <<rangeVars, shiftVars, lookupVars, insertVars, registryVars, textVars,
                   templateVars, parseVars, nameVars, travVars, findVars, bookVars>>

ColNext ==
    \/ NameOfIndex
    \/ IndexOfNameOfIndex
    \/ IndexOfName
    \/ NameOfIndexOfName

ColSpec == ColInit /\ [][ColNext]_vars

\* C1: for every index i >= 0, get_columnindex(get_columnname(i)) = i
C1_IndexRoundTrip ==
    colStage = "index-name-index" => colIndex = colIndex0

\* an index whose name has a zero digit above the lowest position (676) has
\* gone through both conversions
C1_Witness ==
    /\ colStage = "index-name-index"
    /\ colIndex0 = 26 * 26
    /\ colIndex = 26 * 26

\* C2: the two conversions are exact inverses in both directions: the name
\* of an index has only the letters A..Z and is its bijective base-26 name,
\* and the name of the index of a name is that name
C2_ExactInverses ==
    /\ colStage = "index-name" =>
           /\ \A k \in 1..Len(colName) : IsUpper(colName[k])
           /\ colName = BijectiveName(colIndex0)
    /\ colStage = "name-index-name" => colName = colName0

\* ------------------------------------------------------------------ ranges
\* loops run over each Range object
MaxPasses == 2

ColumnInputs == {<<OrdA>>, <<OrdA + 1>>, <<OrdZ>>, <<OrdA, OrdA>>, <<OrdA, OrdA + 1>>}

\* rows 1, 2, 3 and the spelling 02
RowInputs == {<<OrdZero + 1>>, <<OrdZero + 2>>, <<OrdZero + 3>>,
              <<OrdZero, OrdZero + 2>>}

\* the cell names given to the constructor: every one matches \$[a-zA-Z]+\d+
CellInputs == {c \o r : c \in ColumnInputs, r \in RowInputs}

RangeInit ==
    /\ ColIdle
    /\ ShiftIdle
    /\ LookupIdle
    /\ InsertIdle
    /\ RegistryIdle
    /\ TextIdle
    /\ TemplateIdle
    /\ ParseIdle
    /\ NameIdle
    /\ TraverseIdle
    /\ FindIdle
    /\ BookIdle
    /\ interval \in CellInputs \X CellInputs
    /\ ranges = [o \in {"ab", "ba"} |->
                    IF o = "ab" THEN RangeNew(interval)
                    ELSE RangeNew(<<interval[2], interval[1]>>)]
    /\ turn = "ab"
    /\ yielded = <<>>
    /\ passes = [o \in {"ab", "ba"} |-> <<>>]

\* one call of __next__ on the object whose turn it is, inside a for loop:
\* a cell is appended to the loop's cells, StopIteration ends the loop
IterNext ==
    /\ turn \in {"ab", "ba"}
    /\ LET n == RangeNext(ranges[turn])
       IN  /\ ranges' = [ranges EXCEPT ![turn] = n.range]
           /\ IF n.value = StopIteration
              THEN /\ passes' = [passes EXCEPT ![turn] = Append(@, yielded)]
                   /\ yielded' = <<>>
                   /\ turn' = IF Len(passes[turn]) + 1 < MaxPasses THEN turn
                              ELSE IF turn = "ab" THEN "ba" ELSE "done"
              ELSE /\ yielded' = Append(yielded, n.value)
                   /\ UNCHANGED <<passes, turn>>
    /\ UNCHANGED interval
    /\ UNCHANGED <<colVars, shiftVars, lookupVars, insertVars, registryVars, textVars,
                   templateVars, parseVars, nameVars, travVars, findVars, bookVars>>

RangeSpecNext == IterNext

RangeSpec == RangeInit /\ [][RangeSpecNext]_vars

\* C3: the stored range is normalized: the column index and the row of the
\* start are at most those of the end
C3_Normalized ==
    turn # "idle" =>
        \A o \in {"ab", "ba"} :
            /\ Address(ranges[o].start)[1] <= Address(ranges[o].end)[1]
            /\ Address(ranges[o].start)[2] <= Address(ranges[o].end)[2]

\* C4: Range([a, b]) and Range([b, a]) have the same start and the same end
\* (as addresses: the spelling of a row, 02 or 2, is not compared) and yield
\* the same cells when iterated
C4_OrderIrrelevant ==
    turn # "idle" =>
        /\ Address(ranges["ab"].start) = Address(ranges["ba"].start)
        /\ Address(ranges["ab"].end) = Address(ranges["ba"].end)
        /\ turn = "done" => passes["ab"][1] = passes["ba"][1]

\* both objects were iterated, from two cells given in SW-NE order on
\* multi-letter columns, and returned the four cells of the rectangle
C4_Witness ==
    /\ turn = "done"
    /\ interval = <<<<OrdA, OrdA, OrdZero + 2>>, <<OrdA, OrdA + 1, OrdZero + 1>>>>
    /\ Len(passes["ab"][1]) = 4
    /\ passes["ba"][1][1] = <<OrdA, OrdA, OrdZero + 1>>

\* C5: two loops in a row over the same object yield the same cells, and
\* after StopIteration the cursor is back at the start cell
C5_Restartable ==
    turn # "idle" =>
        \A o \in {"ab", "ba"} :
            /\ Len(passes[o]) >= 2 => passes[o][2] = passes[o][1]
            /\ (Len(passes[o]) >= 1 /\ (turn # o \/ yielded = <<>>)) =>
                   ranges[o].current =
                       get_index(ranges[o].start, ranges[o].startrow,
                                 1 + ranges[o].endrow - ranges[o].startrow)

\* a range of several cells was iterated to exhaustion twice
C5_Witness ==
    /\ turn = "done"
    /\ Len(passes["ab"]) = 2
    /\ Len(passes["ab"][1]) = 6
    /\ passes["ab"][2] = passes["ab"][1]

\* ------------------------------------------------- shifting a cell and back
\* largest number of columns or rows a cell is shifted by
MaxShift == 3

\* columns A, B, Z, AA, YZ (index 675) and AAA (index 702)
ShiftColumns == {<<OrdA>>, <<OrdA + 1>>, <<OrdZ>>, <<OrdA, OrdA>>,
                 <<OrdZ - 1, OrdZ>>, <<OrdA, OrdA, OrdA>>}

ShiftCells == {c \o Str(r) : c \in ShiftColumns, r \in 1..3}

ShiftInit ==
    /\ ColIdle
    /\ RangeIdle
    /\ LookupIdle
    /\ InsertIdle
    /\ RegistryIdle
    /\ TextIdle
    /\ TemplateIdle
    /\ ParseIdle
    /\ NameIdle
    /\ TraverseIdle
    /\ FindIdle
    /\ BookIdle
    /\ shiftStage = "given"
    /\ shiftAxis \in {"columns", "rows"}
    /\ shiftCell \in ShiftCells
    /\ shiftBy \in (0 - MaxShift)..MaxShift
    /\ shiftThere = <<>>
    /\ shiftBack = <<>>

\* add_columns(c, k) or add_rows(c, k)
ShiftThere ==
    /\ shiftStage = "given"
    /\ shiftThere' = IF shiftAxis = "columns"
                     THEN add_columns(shiftCell, shiftBy)
                     ELSE add_rows(shiftCell, shiftBy)
    /\ shiftStage' = "there"
    /\ UNCHANGED <<shiftAxis, shiftCell, shiftBy, shiftBack>>
    /\ UNCHANGED <<colVars, rangeVars, lookupVars, insertVars, registryVars, textVars,
                   templateVars, parseVars, nameVars, travVars, findVars, bookVars>>

\* add_columns(., -k) or add_rows(., -k) on the cell the first call returned
ShiftBack ==
    /\ shiftStage = "there"
    /\ shiftThere # ValueError
    /\ shiftBack' = IF shiftAxis = "columns"
                    THEN add_columns(shiftThere, 0 - shiftBy)
                    ELSE add_rows(shiftThere, 0 - shiftBy)
    /\ shiftStage' = "back"
    /\ UNCHANGED <<shiftAxis, shiftCell, shiftBy, shiftThere>>
    /\ UNCHANGED <<colVars, rangeVars, lookupVars, insertVars, registryVars, textVars,
                   templateVars, parseVars, nameVars, travVars, findVars, bookVars>>

ShiftNext == ShiftThere \/ ShiftBack

ShiftSpec == ShiftInit /\ [][ShiftNext]_vars

\* C6: for k with column_index(c) + k >= 0, add_columns(add_columns(c, k), -k)
\* is c, and for k with row(c) + k >= 1, add_rows(add_rows(c, k), -k) is c
C6_ShiftInverse ==
    shiftStage = "back" => shiftBack = shiftCell

\* shifting by rows alone does come back to the cell given
RowsShiftInverse ==
    (shiftStage = "back" /\ shiftAxis = "rows") => shiftBack = shiftCell

\* ------------------------------------------------- looking up one column
\* rows of the sheet a column is looked up in
SheetRows == 2

\* the text "n"
TextN == <<110>>

\* the values a cell holds: nothing, the integer 1, the text "a"
CellValues == {EmptyString, IntValue(1), StrValue(<<OrdLowerA>>)}

Sheets(ncolumns) == [(0..(ncolumns - 1)) \X (1..SheetRows) -> CellValues]

ColumnTypes == {"integer", "real", "text", "date", "datetime"}

\* the defaults of an action: none, the number 0, the text "n"
Defaults == {NoneValue, IntValue(0), StrValue(TextN)}

\* what dbparser builds: Error, Warning and None without default, and
\* Warning(default) and None(default)
Actions ==
    {[action |-> "Error", default |-> NoneValue]}
        \cup {[action |-> a, default |-> d] : a \in {"Warning", "None"}, d \in Defaults}

ExplicitContent(data) ==
    [kind |-> "explicit", data |-> data,
     start |-> [descriptor |-> <<>>, coloffset |-> 0, rowoffset |-> 0],
     end |-> [descriptor |-> <<>>, coloffset |-> 0, rowoffset |-> 0]]

RangeContent(start, end) ==
    [kind |-> "range", data |-> NoneValue,
     start |-> [descriptor |-> start, coloffset |-> 0, rowoffset |-> 0],
     end |-> [descriptor |-> end, coloffset |-> 0, rowoffset |-> 0]]

CellName(columnname, row) == columnname \o Str(row)

\* explicit values: the number 7, the text "a", the empty text
ExplicitValues == {IntValue(7), StrValue(<<OrdLowerA>>), EmptyString}

\* $A1:$A2, an explicit value, or an explicit value and then $A1:$A3, whose
\* last cell lies below the last row of the sheet
LookupContentLists ==
    {<<RangeContent(CellName(<<OrdA>>, 1), CellName(<<OrdA>>, SheetRows))>>}
        \cup {<<ExplicitContent(e)>> : e \in ExplicitValues}
        \cup {<<ExplicitContent(e),
                RangeContent(CellName(<<OrdA>>, 1), CellName(<<OrdA>>, SheetRows + 1))>> :
              e \in ExplicitValues}

LookupInit ==
    /\ ColIdle
    /\ RangeIdle
    /\ ShiftIdle
    /\ InsertIdle
    /\ RegistryIdle
    /\ TextIdle
    /\ TemplateIdle
    /\ ParseIdle
    /\ NameIdle
    /\ TraverseIdle
    /\ FindIdle
    /\ BookIdle
    /\ column \in {[name |-> "a", contents |-> c, type |-> t, action |-> a] :
                   c \in LookupContentLists, t \in ColumnTypes, a \in Actions}
    /\ sheet \in Sheets(1)
    /\ lookupStage = "ready"
    /\ lookup = [exc |-> "none", data |-> <<>>, log |-> <<>>]

\* DBColumn.lookup
ColumnLookup ==
    /\ lookupStage = "ready"
    /\ lookup' = DBColumnLookup(column, sheet)
    /\ lookupStage' = "done"
    /\ UNCHANGED <<column, sheet>>
    /\ UNCHANGED <<colVars, rangeVars, shiftVars, insertVars, registryVars, textVars,
                   templateVars, parseVars, nameVars, travVars, findVars, bookVars>>

LookupNext == ColumnLookup

LookupSpec == LookupInit /\ [][LookupNext]_vars

\* the values of a column in the order the lookup meets them: where each
\* comes from and what was read
RECURSIVE ItemsOf(_, _)
ItemsOf(contents, sh) ==
    IF contents = <<>> THEN <<>>
    ELSE LET content == Head(contents)
             cells == DBRangeCells(content)
             here == IF content.kind = "explicit"
                     THEN <<[from |-> "explicit", data |-> content.data]>>
                     ELSE [k \in 1..Len(cells) |->
                              [from |-> "cell", data |-> SheetRead(sh, cells[k])]]
         IN  here \o ItemsOf(Tail(contents), sh)

\* a value the action has to resolve: a cell without data, or a cell or an
\* explicit value that does not cast to the column type
Fails(item) ==
    \/ item.from = "cell" /\ item.data = EmptyString
    \/ ~CastRead(column.type, item.data).ok

\* the same, with the empty explicit value counted as an absent value
FailsOrEmpty(item) == Fails(item) \/ item.data = EmptyString

DefaultCasts ==
    column.action.default # NoneValue /\ CastDefault(column.type, column.action.default).ok

Count(seq, x) == Cardinality({k \in 1..Len(seq) : seq[k] = x})

\* C7 as claimed: every absent, empty or uncastable value is resolved by the
\* action: Error aborts; Warning logs one warning per such value and yields
\* the default cast to the column type; None yields that default and logs
\* nothing
C7_ActionResolvesAll ==
    lookupStage = "done" =>
        LET items == ItemsOf(column.contents, sheet)
            failing == {k \in 1..Len(items) : FailsOrEmpty(items[k])}
        IN  IF column.action.action = "Error"
            THEN failing # {} => lookup.exc = "RuntimeError"
            ELSE /\ lookup.exc = "none"
                 /\ Len(lookup.data) = Len(items)
                 /\ \A k \in failing :
                        lookup.data[k] =
                            IF column.action.default = NoneValue THEN NoneValue
                            ELSE CastDefault(column.type, column.action.default).value
                 /\ Count(lookup.log, "WARNING") =
                        IF column.action.action = "Warning" THEN Cardinality(failing) ELSE 0

\* C7, amended: every cell without data and every cell or explicit value
\* that does not cast to the column type is resolved by the action, the same
\* way for both: Error aborts at the first such value; Warning logs one
\* warning for it and None logs nothing, and both yield the default cast to
\* the column type, None when the action has no default, and abort when the
\* default does not cast to the column type
C7_ActionResolvesFailures ==
    lookupStage = "done" =>
        LET items == ItemsOf(column.contents, sheet)
            failing == {k \in 1..Len(items) : Fails(items[k])}
            aborts == column.action.action = "Error"
                          \/ (column.action.default # NoneValue /\ ~DefaultCasts)
            met == IF aborts /\ failing # {}
                   THEN CHOOSE k \in failing : \A j \in failing : k <= j
                   ELSE Len(items)
        IN  /\ (aborts /\ failing # {}) =>
                /\ lookup.exc = IF column.action.action = "Error"
                                THEN "RuntimeError" ELSE "TypeError"
                /\ Len(lookup.data) = met - 1
            /\ ~(aborts /\ failing # {}) =>
                /\ lookup.exc = "none"
                /\ Len(lookup.data) = Len(items)
            /\ \A k \in failing :
                   k <= Len(lookup.data) =>
                       lookup.data[k] =
                           IF DefaultCasts
                           THEN CastDefault(column.type, column.action.default).value
                           ELSE NoneValue
            /\ Count(lookup.log, "WARNING") =
                   IF column.action.action = "Warning"
                   THEN Cardinality({k \in failing : k <= met})
                   ELSE 0

\* an integer column with Warning(0) met an empty cell and a cell that does
\* not cast: both became 0, with one warning each and no abort
C7_Witness ==
    /\ lookupStage = "done"
    /\ column.type = "integer"
    /\ column.action = [action |-> "Warning", default |-> IntValue(0)]
    /\ column.contents = <<RangeContent(CellName(<<OrdA>>, 1), CellName(<<OrdA>>, SheetRows))>>
    /\ sheet[<<0, 1>>] = EmptyString
    /\ sheet[<<0, 2>>] = StrValue(<<OrdLowerA>>)
    /\ lookup.exc = "none"
    /\ lookup.data = <<IntValue(0), IntValue(0)>>
    /\ lookup.log = <<"WARNING", "WARNING">>

\* ------------------------------------------- inserting into the database
\* sheets of two columns: numbers, text or nothing in column A, text or
\* nothing in column B
InsertSheets == {sh \in Sheets(2) : \A row \in 1..SheetRows : sh[<<1, row>>] # IntValue(1)}

Modifier(name, args) == [name |-> name, args |-> args]

\* the modifiers of a block: none, enforce_unique, check_duplicates, both,
\* or a required number of rows
Contexts ==
    {<<>>,
     <<Modifier("enforce_unique", <<>>)>>,
     <<Modifier("check_duplicates", <<>>)>>,
     <<Modifier("check_duplicates", <<>>), Modifier("enforce_unique", <<>>)>>,
     <<Modifier("eq", <<SheetRows>>)>>}

WholeColumn(columnname) ==
    <<RangeContent(CellName(columnname, 1), CellName(columnname, SheetRows))>>

\* table t1: integer column a from $A1 down, text column b from $B1 down
FirstTables ==
    {[kind |-> "table", name |-> "t1", spreadsheet |-> "", text |-> "",
      block |-> [columns |-> <<[name |-> "a", contents |-> WholeColumn(<<OrdA>>),
                                type |-> "integer", action |-> actiona],
                               [name |-> "b", contents |-> WholeColumn(<<OrdA + 1>>),
                                type |-> "text", action |-> actionb]>>,
                 context |-> context]] :
     actiona \in {[action |-> "Error", default |-> NoneValue],
                  [action |-> "Warning", default |-> IntValue(0)],
                  [action |-> "None", default |-> NoneValue]},
     actionb \in {[action |-> "Error", default |-> NoneValue],
                  [action |-> "None", default |-> StrValue(TextN)]},
     context \in Contexts}

\* table t2: text column c, the single cell $A1 or one cell more than the
\* sheet has rows, and text column d from $B1 down
SecondTables ==
    {[kind |-> "table", name |-> "t2", spreadsheet |-> "", text |-> "",
      block |-> [columns |-> <<[name |-> "c", contents |-> contentsc,
                                type |-> "text",
                                action |-> [action |-> "None", default |-> NoneValue]],
                               [name |-> "d", contents |-> WholeColumn(<<OrdA + 1>>),
                                type |-> "text", action |-> actiond]>>,
                 context |-> <<>>]] :
     contentsc \in {<<RangeContent(CellName(<<OrdA>>, 1), CellName(<<OrdA>>, 1))>>,
                    <<RangeContent(CellName(<<OrdA>>, 1), CellName(<<OrdA>>, SheetRows + 1))>>},
     actiond \in {[action |-> "Error", default |-> NoneValue],
                  [action |-> "Warning", default |-> StrValue(TextN)]}}

Statement == [kind |-> "statement", name |-> "", spreadsheet |-> "", text |-> "sql",
              block |-> [columns |-> <<>>, context |-> <<>>]]

\* DBDatabase.__init__, and the arguments of DBDatabase.insert
InsertInit ==
    /\ ColIdle
    /\ RangeIdle
    /\ ShiftIdle
    /\ RegistryIdle
    /\ TextIdle
    /\ TemplateIdle
    /\ ParseIdle
    /\ NameIdle
    /\ TraverseIdle
    /\ FindIdle
    /\ BookIdle
    /\ column = <<>>
    /\ lookupStage = "idle"
    /\ lookup = <<>>
    /\ sheet \in InsertSheets
    /\ database \in {<<first, Statement, second>> :
                     first \in FirstTables, second \in SecondTables}
    /\ spsname = "book"
    /\ override = FALSE
    /\ dbStage = "start"
    /\ dbNext = 1
    /\ dbConn = "none"
    /\ dbPending = <<>>
    /\ dbCommitted = <<>>
    /\ dbColumns = [k \in 1..Len(database) |-> <<>>]
    /\ dbLog = [k \in 1..Len(database) |-> <<>>]
    /\ dbExc = "none"

\* what the cursor is given to execute
RowsInto(name, rows) ==
    [k \in 1..Len(rows) |-> [kind |-> "row", target |-> name, row |-> rows[k]]]

\* DBDatabase.insert, up to its loop: the connection is opened
InsertConnect ==
    /\ dbStage = "start"
    /\ dbConn' = "open"
    /\ dbStage' = "loop"
    /\ UNCHANGED <<database, spsname, override, dbNext, dbPending, dbCommitted,
                   dbColumns, dbLog, dbExc>>
    /\ UNCHANGED <<colVars, rangeVars, shiftVars, lookupVars, registryVars, textVars,
                   templateVars, parseVars, nameVars, travVars, findVars, bookVars>>

\* one turn of the loop on a DBTable: DBTable.insert; an exception leaves
\* the loop and DBDatabase.insert, with the connection as it is
InsertTable ==
    /\ dbStage = "loop"
    /\ dbNext <= Len(database)
    /\ database[dbNext].kind = "table"
    /\ \E r \in {DBTableInsert(database[dbNext], sheet, spsname, "", override)} :
           /\ dbPending' = dbPending \o RowsInto(database[dbNext].name, r.submitted)
           /\ dbColumns' = [dbColumns EXCEPT ![dbNext] = r.columns]
           /\ dbLog' = [dbLog EXCEPT ![dbNext] = r.log]
           /\ dbExc' = r.exc
           /\ IF r.exc = "none"
              THEN dbNext' = dbNext + 1 /\ dbStage' = "loop"
              ELSE dbNext' = dbNext /\ dbStage' = "aborted"
    /\ UNCHANGED <<database, spsname, override, dbConn, dbCommitted>>
    /\ UNCHANGED <<colVars, rangeVars, shiftVars, lookupVars, registryVars, textVars,
                   templateVars, parseVars, nameVars, travVars, findVars, bookVars>>

\* one turn of the loop on a DBSQLStatement: DBSQLStatement.exec
InsertStatement ==
    /\ dbStage = "loop"
    /\ dbNext <= Len(database)
    /\ database[dbNext].kind = "statement"
    /\ dbPending' = Append(dbPending,
                           [kind |-> "statement", target |-> database[dbNext].text,
                            row |-> <<>>])
    /\ dbNext' = dbNext + 1
    /\ UNCHANGED <<database, spsname, override, dbStage, dbConn, dbCommitted,
                   dbColumns, dbLog, dbExc>>
    /\ UNCHANGED <<colVars, rangeVars, shiftVars, lookupVars, registryVars, textVars,
                   templateVars, parseVars, nameVars, travVars, findVars, bookVars>>

\* after the loop: commit and close
InsertCommit ==
    /\ dbStage = "loop"
    /\ dbNext > Len(database)
    /\ dbCommitted' = dbCommitted \o dbPending
    /\ dbPending' = <<>>
    /\ dbConn' = "closed"
    /\ dbStage' = "done"
    /\ UNCHANGED <<database, spsname, override, dbNext, dbColumns, dbLog, dbExc>>
    /\ UNCHANGED <<colVars, rangeVars, shiftVars, lookupVars, registryVars, textVars,
                   templateVars, parseVars, nameVars, travVars, findVars, bookVars>>

InsertNext == InsertConnect \/ InsertTable \/ InsertStatement \/ InsertCommit

InsertSpec == InsertInit /\ [][InsertNext]_vars

\* the rows the cursor was given for a table, committed or not
SubmittedTo(name) ==
    LET all == dbCommitted \o dbPending
        mine == SelectSeq(all, LAMBDA e : e.kind = "row" /\ e.target = name)
    IN  [k \in 1..Len(mine) |-> mine[k].row]

\* C8: when an Error action ends DBDatabase.insert, no row of the table it
\* happened in has been submitted, and nothing has been committed; nothing
\* is committed before the loop has gone through every expression
C8_ErrorAbortsBeforeSubmit ==
    /\ (dbStage = "aborted" /\ dbExc = "RuntimeError") =>
           /\ database[dbNext].kind = "table"
           /\ SubmittedTo(database[dbNext].name) = <<>>
           /\ dbCommitted = <<>>
    /\ dbCommitted # <<>> => dbStage = "done"

\* the rows of t1 and the statement were executed, then an Error action in
\* t2 ended the run: t2 has no row and nothing is committed
C8_Witness ==
    /\ dbStage = "aborted"
    /\ dbExc = "RuntimeError"
    /\ dbNext = Len(database)
    /\ Len(SubmittedTo("t1")) = SheetRows
    /\ Len(dbPending) = SheetRows + 1
    /\ SubmittedTo("t2") = <<>>
    /\ dbCommitted = <<>>

\* the rows of a block after its columns were extended, position by
\* position, without those that hold a None
ResolvedRows(datas) ==
    LET maxlen == MaxLength(datas)
        all == [irow \in 1..maxlen |-> RowAt(datas, irow)]
    IN  SelectSeq(all, LAMBDA row : ~HasNone(row))

\* the first occurrence of each row, in order
RECURSIVE FirstOccurrences(_, _)
FirstOccurrences(rows, seen) ==
    IF rows = <<>> THEN <<>>
    ELSE IF Head(rows) \in seen THEN FirstOccurrences(Tail(rows), seen)
    ELSE <<Head(rows)>> \o FirstOccurrences(Tail(rows), seen \cup {Head(rows)})

HasRepeats(rows) == \E j, k \in 1..Len(rows) : j < k /\ rows[j] = rows[k]

\* the expressions DBDatabase.insert went through without an exception
Inserted ==
    {k \in 1..Len(database) :
        /\ database[k].kind = "table"
        /\ dbStage \in {"loop", "aborted", "done"}
        /\ k < dbNext}

\* C9: with enforce_unique the rows DBBlock.lookup returns hold each distinct
\* row once, whether or not check_duplicates is given; with check_duplicates
\* and without enforce_unique every row is returned, repeated ones too, and
\* a duplicate warning is logged when and only when a row is repeated
C9_UniqueAndDuplicates ==
    \A k \in Inserted :
        LET context == database[k].block.context
            resolved == ResolvedRows(dbColumns[k])
            returned == SubmittedTo(database[k].name)
            warnings == Count(dbLog[k], "WARNING_DUPLICATED_ROW")
        IN  /\ HasModifier(context, "enforce_unique") =>
                /\ returned = FirstOccurrences(resolved, {})
                /\ ~HasRepeats(returned)
            /\ (HasModifier(context, "check_duplicates")
                    /\ ~HasModifier(context, "enforce_unique")) =>
                /\ returned = resolved
                /\ HasRepeats(resolved) => warnings >= 1
                /\ ~HasRepeats(resolved) => warnings = 0

\* the same row twice in the sheet: under check_duplicates alone both are
\* returned and one warning is logged
C9_Witness ==
    /\ 1 \in Inserted
    /\ database[1].block.context = <<Modifier("check_duplicates", <<>>)>>
    /\ \A row \in 1..SheetRows :
           sheet[<<0, row>>] = IntValue(1) /\ sheet[<<1, row>>] = StrValue(<<OrdLowerA>>)
    /\ Len(SubmittedTo("t1")) = SheetRows
    /\ HasRepeats(SubmittedTo("t1"))
    /\ Count(dbLog[1], "WARNING_DUPLICATED_ROW") >= 1

\* the same row twice in the sheet: under enforce_unique it is returned once
UniqueWitness ==
    /\ 1 \in Inserted
    /\ HasModifier(database[1].block.context, "enforce_unique")
    /\ HasRepeats(ResolvedRows(dbColumns[1]))
    /\ Len(SubmittedTo("t1")) = 1

\* ------------------------------------------- executing a sheet registry
\* columns and rows of the cells the commands are given
GridSide == 3

\* the name "l" and the texts "x", "=" and " "
NameL == <<108>>
TextX == <<120>>
TextEquals == <<61>>
TextBlank == <<32>>

Explicit(cell) == [descriptor |-> cell, coloffset |-> 0, rowoffset |-> 0]

GridCells == {CellName(get_columnname(c), r) : c \in 0..(GridSide - 1), r \in 1..GridSide}

\* what spsparser builds for a literal: over a single cell, without a
\* direction, or over a range, with one
LiteralRanges ==
    {[range |-> <<Explicit(cell), Explicit(cell)>>, direction |-> "none"] :
        cell \in GridCells}
    \cup {[range |-> <<Explicit(a), Explicit(b)>>, direction |-> d] :
             a \in GridCells, b \in GridCells, d \in {"right", "down"}}

\* the text "x", the integer 5, the formula "=A1"
FirstContents ==
    {SPSCellContent(StrValue(TextX), "text", NoneValue),
     SPSCellContent(IntValue(5), "integer", NoneValue),
     SPSCellContent(StrValue(TextEquals \o CellName(<<OrdA>>, 1)), "formula", NoneValue)}

FirstLiterals ==
    {[type |-> "literal", name |-> n, range |-> r.range, direction |-> r.direction,
      content |-> c] :
        n \in {<<>>, NameL}, r \in LiteralRanges, c \in FirstContents}

VariableOf(name, corner) == LiteralPrefix \o name \o <<OrdDot>> \o corner

\* the texts "$literal.l.nw" and "$literal.l.sw + (1,1)"
SecondContents ==
    {SPSCellContent(StrValue(<<OrdDollar>> \o VariableOf(NameL, CornerNW)),
                    "text", NoneValue),
     SPSCellContent(StrValue(<<OrdDollar>> \o VariableOf(NameL, CornerSW)
                                 \o TextBlank \o <<OrdPlus>> \o TextBlank
                                 \o <<OrdLeftParenthesis>>
                                 \o Str(1) \o <<OrdComma>> \o Str(1)
                                 \o <<OrdRightParenthesis>>),
                    "text", NoneValue)}

\* a second literal: at $B1, or one column to the right of $literal.l.se
SecondLiterals ==
    {[type |-> "literal", name |-> <<>>, range |-> <<ref, ref>>, direction |-> "none",
      content |-> c] :
        ref \in {Explicit(CellName(<<OrdA + 1>>, 1)),
                 [descriptor |-> VariableOf(NameL, CornerSE),
                  coloffset |-> 1, rowoffset |-> 0]},
        c \in SecondContents}

\* SPSRegistry.__init__ and __add__
RegistryInit ==
    /\ ColIdle
    /\ RangeIdle
    /\ ShiftIdle
    /\ LookupIdle
    /\ InsertIdle
    /\ TextIdle
    /\ TemplateIdle
    /\ ParseIdle
    /\ NameIdle
    /\ TraverseIdle
    /\ FindIdle
    /\ BookIdle
    /\ registry \in {<<first, second>> : first \in FirstLiterals, second \in SecondLiterals}
    /\ regStage = "start"
    /\ regNext = 0
    /\ regContents = <<>>
    /\ regContext = <<>>
    /\ regExc = "none"
    /\ QueryIdle

\* SPSRegistry.execute, up to its loop: an empty context and an empty array
RegistryStart ==
    /\ regStage = "start"
    /\ regStage' = "loop"
    /\ regNext' = 1
    /\ regContents' = <<<<>>>>
    /\ regContext' = <<>>
    /\ UNCHANGED <<registry, regExc, queryVars>>
    /\ UNCHANGED <<colVars, rangeVars, shiftVars, lookupVars, insertVars, textVars,
                   templateVars, parseVars, nameVars, travVars, findVars, bookVars>>

\* one turn of the loop on a literal: SPSLiteral.execute; an exception
\* leaves the loop and SPSRegistry.execute
ExecuteLiteral ==
    /\ regStage = "loop"
    /\ regNext <= Len(registry)
    /\ registry[regNext].type = "literal"
    /\ \E r \in {SPSLiteralExecute(registry[regNext], regContents, regContext)} :
           /\ regContents' = r.data
           /\ regContext' = r.context
           /\ regExc' = r.exc
           /\ IF r.exc = "none"
              THEN regNext' = regNext + 1 /\ regStage' = "loop"
              ELSE regNext' = regNext /\ regStage' = "aborted"
    /\ UNCHANGED <<registry, queryVars>>
    /\ UNCHANGED <<colVars, rangeVars, shiftVars, lookupVars, insertVars, textVars,
                   templateVars, parseVars, nameVars, travVars, findVars, bookVars>>

\* after the loop: the array is returned
RegistryReturn ==
    /\ regStage = "loop"
    /\ regNext > Len(registry)
    /\ regStage' = "done"
    /\ UNCHANGED <<registry, regNext, regContents, regContext, regExc, queryVars>>
    /\ UNCHANGED <<colVars, rangeVars, shiftVars, lookupVars, insertVars, textVars,
                   templateVars, parseVars, nameVars, travVars, findVars, bookVars>>

RegistryNext == RegistryStart \/ ExecuteLiteral \/ RegistryReturn

RegistrySpec == RegistryInit /\ [][RegistryNext]_vars

\* the first literal has been executed, and nothing else
FirstExecuted == regStage = "loop" /\ regNext = 2

\* the addresses between the two cells of a command given explicitly
Rectangle(command) ==
    LET a == Address(command.range[1].descriptor)
        b == Address(command.range[2].descriptor)
    IN  (Min(a[1], b[1])..Max(a[1], b[1])) \X (Min(a[2], b[2])..Max(a[2], b[2]))

MaxTuples == 2

\* the name "q", the texts "s" and "t"
NameQ == <<113>>
TextS == <<115>>
TextT == <<116>>

QueryVariable(name, corner) == QueryPrefix \o name \o <<OrdDot>> \o corner

\* the cells A1, B2, Z1 and YZ1
CellA1 == CellName(<<OrdA>>, 1)
CellB2 == CellName(<<OrdA + 1>>, 2)
CellZ1 == CellName(<<OrdZ>>, 1)
CellYZ1 == CellName(<<OrdZ - 1, OrdZ>>, 1)

\* what spsparser builds for a query: over a single cell, without a
\* direction, or over a range, with one; $Z1:$AA1 is two cells wide
QueryRanges ==
    {[range |-> <<Explicit(cell), Explicit(cell)>>, direction |-> "none"] :
        cell \in {CellA1, CellB2, CellZ1, CellYZ1}}
    \cup {[range |-> <<Explicit(a), Explicit(b)>>, direction |-> d] :
             a \in {CellA1, CellB2}, b \in {CellA1, CellB2, CellName(<<OrdA>>, 2)},
             d \in {"right", "down"}}
    \cup {[range |-> <<Explicit(cell), Explicit(cell)>>, direction |-> "down"] :
             cell \in {CellZ1, CellYZ1}}
    \cup {[range |-> <<Explicit(CellZ1), Explicit(CellName(<<OrdA, OrdA>>, 1))>>,
           direction |-> d] : d \in {"right", "down"}}

Queries ==
    {[type |-> "query", name |-> NameQ, range |-> r.range, direction |-> r.direction,
      content |-> SPSCellContent(StrValue(TextS), "text", NoneValue), dbref |-> d] :
        r \in QueryRanges, d \in {"", "own"}}

\* the tuples a query fetches: of one value or of two, with a NULL
Tuples ==
    {<<IntValue(5)>>, <<IntValue(7)>>, <<IntValue(5), StrValue(TextT)>>,
     <<StrValue(TextS), IntValue(7)>>, <<StrValue(TextT), NoneValue>>}

\* what sqlite3 answers: at least one tuple and at most MaxTuples, all with
\* as many values, or an exception
Fetches ==
    {[exc |-> "none", rows |-> rows] :
        rows \in UNION {{f \in [1..n -> Tuples] : \A k \in 1..n : Len(f[k]) = Len(f[1])} :
                           n \in 1..MaxTuples}}
    \cup {[exc |-> "OperationalError", rows |-> <<>>]}

\* the literal after the query: "x" at $C3, or one column to the right of
\* $query.q.se
LaterLiterals ==
    {[type |-> "literal", name |-> <<>>, range |-> <<ref, ref>>, direction |-> "none",
      content |-> SPSCellContent(StrValue(TextX), "text", NoneValue)] :
        ref \in {Explicit(CellName(<<OrdA + 2>>, 3)),
                 [descriptor |-> QueryVariable(NameQ, CornerSE),
                  coloffset |-> 1, rowoffset |-> 0]}}

QueryInit ==
    /\ ColIdle
    /\ RangeIdle
    /\ ShiftIdle
    /\ LookupIdle
    /\ InsertIdle
    /\ TextIdle
    /\ TemplateIdle
    /\ ParseIdle
    /\ NameIdle
    /\ TraverseIdle
    /\ FindIdle
    /\ BookIdle
    /\ registry \in {<<first, second>> : first \in Queries, second \in LaterLiterals}
    /\ regStage = "start"
    /\ regNext = 0
    /\ regContents = <<>>
    /\ regContext = <<>>
    /\ regExc = "none"
    /\ dbname \in {"", "given"}
    /\ fetched \in Fetches
    /\ regConns = <<>>

\* one turn of the loop on a query: SPSQuery.execute; an exception leaves
\* the loop and SPSRegistry.execute
ExecuteQuery ==
    /\ regStage = "loop"
    /\ regNext <= Len(registry)
    /\ registry[regNext].type # "literal"
    /\ \E r \in {SPSQueryExecute(registry[regNext], regContents, regContext,
                                 dbname, fetched)} :
           /\ regContents' = r.data
           /\ regContext' = r.context
           /\ regExc' = r.exc
           /\ regConns' = IF r.conn = "none" THEN regConns ELSE Append(regConns, r.conn)
           /\ IF r.exc = "none"
              THEN regNext' = regNext + 1 /\ regStage' = "loop"
              ELSE regNext' = regNext /\ regStage' = "aborted"
    /\ UNCHANGED <<registry, dbname, fetched>>
    /\ UNCHANGED <<colVars, rangeVars, shiftVars, lookupVars, insertVars, textVars,
                   templateVars, parseVars, nameVars, travVars, findVars, bookVars>>

QueryNext == RegistryStart \/ ExecuteQuery \/ ExecuteLiteral \/ RegistryReturn

QuerySpec == QueryInit /\ [][QueryNext]_vars

\* the query has been executed, and nothing else
QueryExecuted == regStage = "loop" /\ regNext = 2 /\ registry[1].type = "query"

\* the corners of the bounding box of the cells written so far
BoxOf(cells) ==
    [left |-> CHOOSE c \in {a[1] : a \in cells} : \A a \in cells : c <= a[1],
     right |-> CHOOSE c \in {a[1] : a \in cells} : \A a \in cells : c >= a[1],
     top |-> CHOOSE r \in {a[2] : a \in cells} : \A a \in cells : r <= a[2],
     bottom |-> CHOOSE r \in {a[2] : a \in cells} : \A a \in cells : r >= a[2]]

\* the reference $query.q.se + (1,0)
RightOfSE ==
    [descriptor |-> QueryVariable(NameQ, CornerSE), coloffset |-> 1, rowoffset |-> 0]

\* C11: after a named query has executed with at least one tuple, query.q.nw
\* and query.q.se are the north-west and south-east corners of the bounding
\* box of the cells it wrote, and $query.q.se + (1,0) resolves to the cell
\* one column to the right of query.q.se in the same row
C11_QueryCorners ==
    (QueryExecuted /\ Filled(regContents) # {}) =>
        LET box == BoxOf(Filled(regContents))
        IN  /\ regContext[QueryVariable(NameQ, CornerNW)]
                   = CellName(BijectiveName(box.left), box.top)
            /\ regContext[QueryVariable(NameQ, CornerSE)]
                   = CellName(BijectiveName(box.right), box.bottom)
            /\ SPSCellReferenceExecute(RightOfSE, regContext)
                   = CellName(BijectiveName(box.right + 1), box.bottom)

\* ------------------------------------------------------------- substitute
\* longest string given to substitute
MaxText == 5

\* the variables x, xy and y
VarX == <<120>>
VarXY == <<120, 121>>
VarY == <<121>>

CellC3 == CellName(<<OrdA + 2>>, 3)

\* [a-zA-Z]+, the pattern of the example of substitute
WordPattern == <<Letters1>>

\* the strings of '$', 'x' and 'y' of at most MaxText characters
Texts == UNION {[1..n -> {OrdDollar, 120, 121}] : n \in 0..MaxText}

\* the dictionaries: x alone, x and y, x and xy
Bindings ==
    {(VarX :> CellB2),
     (VarX :> CellB2) @@ (VarY :> CellC3),
     (VarX :> CellB2) @@ (VarXY :> CellC3)}

TextInit ==
    /\ ColIdle
    /\ RangeIdle
    /\ ShiftIdle
    /\ LookupIdle
    /\ InsertIdle
    /\ RegistryIdle
    /\ TemplateIdle
    /\ ParseIdle
    /\ NameIdle
    /\ TraverseIdle
    /\ FindIdle
    /\ BookIdle
    /\ text \in Texts
    /\ bindings \in Bindings
    /\ textStage = "given"
    /\ textResult = <<>>

\* the call substitute (r'[a-zA-Z]+', bindings, text)
Substitute ==
    /\ textStage = "given"
    /\ textResult' = substitute(WordPattern, bindings, text)
    /\ textStage' = "done"
    /\ UNCHANGED <<text, bindings>>
    /\ UNCHANGED <<colVars, rangeVars, shiftVars, lookupVars, insertVars, registryVars,
                   templateVars, parseVars, nameVars, travVars, findVars, bookVars>>

TextNext == Substitute

TextSpec == TextInit /\ [][TextNext]_vars

\* the string with every '$' variable replaced by the cell bound to it, each
\* where it stands
RECURSIVE EveryOccurrence(_, _, _, _)
EveryOccurrence(pattern, repl, string, i) ==
    IF i > Len(string) THEN <<>>
    ELSE LET e == MatchFrom(<<Lit(OrdDollar)>> \o pattern, string, i)
         IN  IF e = 0 THEN <<string[i]>> \o EveryOccurrence(pattern, repl, string, i + 1)
             ELSE repl[SubSeq(string, i + 1, e - 1)]
                      \o EveryOccurrence(pattern, repl, string, e)

\* every '$' variable of the string has a cell bound to it
AllBound(pattern, repl, string) ==
    LET found == FindIter(<<Lit(OrdDollar)>> \o pattern, string, 1, 0)
    IN  \A k \in 1..Len(found) : Tail(found[k]) \in DOMAIN repl

\* C12: substitute replaces every occurrence of $var by the cell bound to
\* var, and of the '$' in front of a variable all but the rightmost are
\* kept: with x bound to B2, "$x" becomes "B2" and "$$x" becomes "$B2"
C12_SubstituteEveryVariable ==
    textStage = "done" /\ AllBound(WordPattern, bindings, text) =>
        textResult = EveryOccurrence(WordPattern, bindings, text, 1)

\* ------------------------------------------------------------ preprocessor
\* longest text given to subst_template
MaxCall == 6

\* position after the arguments that follow the first one in a call,
\* (,\s*\w+\s*)*\), from position i of s on; 0 when they do not match
RECURSIVE CallRest(_, _)
CallRest(s, i) ==
    IF i > Len(s) THEN 0
    ELSE IF s[i] = OrdRightParenthesis THEN i + 1
    ELSE IF s[i] # OrdComma THEN 0
    ELSE LET w == i + 1 + RunLength("spaces", s, i + 1)
             run == RunLength("alnum", s, w)
         IN  IF run = 0 THEN 0
             ELSE CallRest(s, w + run + RunLength("spaces", s, w + run))

\* REGEXP_TEMPLATE_CALL, name\s*\(\w*(,\s*\w+\s*)*\): the position after
\* its match at position i of s, 0 when it does not match there
CallEnd(name, s, i) ==
    LET n == MatchFrom(LitPattern(name) \o <<Spaces0, Lit(OrdLeftParenthesis)>>, s, i)
    IN  IF n = 0 THEN 0 ELSE CallRest(s, n + RunLength("alnum", s, n))

\* re.finditer of REGEXP_TEMPLATE_CALL: the texts of the calls
RECURSIVE FindCalls(_, _, _)
FindCalls(name, s, i) ==
    IF i > Len(s) THEN <<>>
    ELSE LET e == CallEnd(name, s, i)
         IN  IF e = 0 THEN FindCalls(name, s, i + 1)
             ELSE <<SubSeq(s, i, e - 1)>> \o FindCalls(name, s, e)

\* str.strip of the whitespace
RECURSIVE Strip(_)
Strip(s) ==
    IF s = <<>> THEN s
    ELSE IF Head(s) \in Whitespace THEN Strip(Tail(s))
    ELSE IF s[Len(s)] \in Whitespace THEN Strip(SubSeq(s, 1, Len(s) - 1))
    ELSE s

\* str.split (','): the pieces between the commas, acc being the piece
\* collected so far
RECURSIVE Split(_, _)
Split(s, acc) ==
    IF s = <<>> THEN <<acc>>
    ELSE IF Head(s) = OrdComma THEN <<acc>> \o Split(Tail(s), <<>>)
    ELSE Split(Tail(s), Append(acc, Head(s)))

\* the arguments of a call: what REGEXP_ARGS finds between its parentheses,
\* split by the commas, stripped, the empty ones removed
CallArgs(call) ==
    LET open == CHOOSE k \in 1..Len(call) :
                    call[k] = OrdLeftParenthesis
                        /\ \A j \in 1..(k - 1) : call[j] # OrdLeftParenthesis
        pieces == Split(SubSeq(call, open + 1, Len(call) - 1), <<>>)
    IN  SelectSeq([k \in 1..Len(pieces) |-> Strip(pieces[k])], LAMBDA a : a # <<>>)

\* PRGTemplate._parse_template: the arguments are kept between "__"
PRGTemplate(name, args, body) ==
    [name |-> name,
     args |-> [k \in 1..Len(args) |-> <<OrdUnderscore, OrdUnderscore>> \o args[k]
                                          \o <<OrdUnderscore, OrdUnderscore>>],
     body |-> body]

\* the loop of PRGTemplate.substitute: every key of dict (zip (...)) is
\* replaced by its value, in the order of the keys
RECURSIVE ReplaceArgs(_, _, _, _)
ReplaceArgs(keys, args, k, result) ==
    IF k > Len(keys) \/ k > Len(args) THEN result
    ELSE IF \E j \in 1..(k - 1) : keys[j] = keys[k]
    THEN ReplaceArgs(keys, args, k + 1, result)
    ELSE LET last == CHOOSE j \in k..Min(Len(keys), Len(args)) :
                         keys[j] = keys[k]
                             /\ \A i \in (j + 1)..Min(Len(keys), Len(args)) :
                                    keys[i] # keys[k]
         IN  ReplaceArgs(keys, args, k + 1,
                         Sub(LitPattern(keys[k]), args[last], result, 1))

\* PRGTemplate.substitute without the verification of the number of arguments
PRGTemplateSubstituteUnchecked(template, args) ==
    ReplaceArgs(template.args, args, 1, template.body)

\* PRGTemplate.substitute: ValueError when the number of arguments given is
\* not the number of arguments of the template
PRGTemplateSubstitute(template, args) ==
    IF Len(args) # Len(template.args) THEN ValueError
    ELSE ReplaceArgs(template.args, args, 1, template.body)

\* the loop of subst_template: every call found in the text given is
\* replaced, wherever it is written in the text as it is by then, by what
\* the template makes of its arguments
RECURSIVE SubstCalls(_, _, _)
SubstCalls(calls, template, string) ==
    IF calls = <<>> THEN string
    ELSE LET body == PRGTemplateSubstitute(template, CallArgs(Head(calls)))
         IN  IF body = ValueError THEN ValueError
             ELSE SubstCalls(Tail(calls), template,
                             Sub(LitPattern(Head(calls)), body, string, 1))

subst_template(string, template) ==
    SubstCalls(FindCalls(template.name, string, 1), template, string)

NameF == <<102>>
ArgA == <<97>>
ArgB == <<98>>

\* the templates f () {k}, f (a) {__a__} and f (a, b) {__a__+__b__}
Templates ==
    {PRGTemplate(NameF, <<>>, <<107>>),
     PRGTemplate(NameF, <<ArgA>>, <<95, 95, 97, 95, 95>>),
     PRGTemplate(NameF, <<ArgA, ArgB>>, <<95, 95, 97, 95, 95, 43, 95, 95, 98, 95, 95>>)}

\* the texts of 'f', 'x', '(', ')', ',' and blanks of at most MaxCall characters
CallTexts ==
    UNION {[1..n -> {102, 120, OrdLeftParenthesis, OrdRightParenthesis, OrdComma, 32}]
               : n \in 0..MaxCall}

TemplateInit ==
    /\ ColIdle
    /\ RangeIdle
    /\ ShiftIdle
    /\ LookupIdle
    /\ InsertIdle
    /\ RegistryIdle
    /\ TextIdle
    /\ ParseIdle
    /\ NameIdle
    /\ TraverseIdle
    /\ FindIdle
    /\ BookIdle
    /\ itemplate \in Templates
    /\ tplText \in CallTexts
    /\ tplStage = "given"
    /\ tplResult = <<>>

\* the call subst_template (tplText, itemplate)
SubstTemplate ==
    /\ tplStage = "given"
    /\ tplResult' = subst_template(tplText, itemplate)
    /\ tplStage' = "done"
    /\ UNCHANGED <<itemplate, tplText>>
    /\ UNCHANGED <<colVars, rangeVars, shiftVars, lookupVars, insertVars, registryVars,
                   textVars, parseVars, nameVars, travVars, findVars, bookVars>>

TemplateNext == SubstTemplate

TemplateSpec == TemplateInit /\ [][TemplateNext]_vars

\* the number of words written in a text
RECURSIVE WordCount(_, _)
WordCount(s, i) ==
    IF i > Len(s) THEN 0
    ELSE LET run == RunLength("alnum", s, i)
         IN  IF run = 0 THEN WordCount(s, i + 1) ELSE 1 + WordCount(s, i + run)

\* the text holds an invocation name(...) of the template whose number of
\* actual arguments, the words between its parentheses, is not the number
\* of arguments of the template
MismatchedCall ==
    \E i \in 1..Len(tplText) :
        LET e == CallEnd(itemplate.name, tplText, i)
        IN  /\ e # 0
            /\ WordCount(SubSeq(tplText, i + Len(itemplate.name), e - 1), 1)
                   # Len(itemplate.args)

\* C13: invoking a template with a number of actual arguments different
\* from its number of formal arguments raises an error instead of producing
\* a substituted text
C13_MismatchRaises ==
    tplStage = "done" /\ MismatchedCall => tplResult = ValueError

\* the template f (a, b) invoked as f(x)
C13_Witness ==
    /\ tplStage = "done"
    /\ Len(itemplate.args) = 2
    /\ tplText = <<102, OrdLeftParenthesis, 120, OrdRightParenthesis>>
    /\ tplResult = ValueError

\* ------------------------------------------- the order of the expressions
\* DBDatabase.__init__: a database is the list of its expressions
DBDatabase(expressions) == expressions

\* the expressions of the other database taken first
DBDatabaseAddInFront(self, other) == other \o self

\* DBDatabase.__add__: the expressions of the other database are added
\* after those of this one
DBDatabaseAdd(self, other) == self \o other

\* DBParser.p_definitions, over the expressions in the order of the text:
\* definitions : expression | expression definitions
RECURSIVE p_definitions(_)
p_definitions(expressions) ==
    IF Len(expressions) = 1 THEN DBDatabase(<<expressions[1]>>)
    ELSE DBDatabaseAdd(DBDatabase(<<expressions[1]>>), p_definitions(Tail(expressions)))

\* the orders three expressions are declared in
Orders == {p \in [1..3 -> 1..3] : \A j, k \in 1..3 : j # k => p[j] # p[k]}

\* the specification texts: a table t1 without modifiers, a statement and a
\* table t2, in every order
Declarations ==
    {[k \in 1..3 |-> <<first, Statement, second>>[p[k]]] :
         first \in {t \in FirstTables : t.block.context = <<>>},
         second \in SecondTables,
         p \in Orders}

\* the text given to the parser, and the arguments of DBDatabase.insert
OrderInit ==
    /\ ColIdle
    /\ RangeIdle
    /\ ShiftIdle
    /\ RegistryIdle
    /\ TextIdle
    /\ TemplateIdle
    /\ NameIdle
    /\ TraverseIdle
    /\ FindIdle
    /\ BookIdle
    /\ column = <<>>
    /\ lookupStage = "idle"
    /\ lookup = <<>>
    /\ sheet \in InsertSheets
    /\ database = <<>>
    /\ spsname = "book"
    /\ override = FALSE
    /\ dbStage = "idle"
    /\ dbNext = 0
    /\ dbConn = "none"
    /\ dbPending = <<>>
    /\ dbCommitted = <<>>
    /\ dbColumns = <<>>
    /\ dbLog = <<>>
    /\ dbExc = "none"
    /\ declared \in Declarations
    /\ parseStage = "parsing"
    /\ parseNext = 0
    /\ literal_table = <<>>
    /\ query_table = <<>>
    /\ parseLog = <<>>
    /\ exitStatus = -1

\* VerbatimDBParser.run: the parser returns the DBDatabase of the text
ParseDefinitions ==
    /\ parseStage = "parsing"
    /\ dbStage = "idle"
    /\ database' = p_definitions(declared)
    /\ parseStage' = "returned"
    /\ dbStage' = "start"
    /\ dbNext' = 1
    /\ dbColumns' = [k \in 1..Len(declared) |-> <<>>]
    /\ dbLog' = [k \in 1..Len(declared) |-> <<>>]
    /\ UNCHANGED <<spsname, override, dbConn, dbPending, dbCommitted, dbExc>>
    /\ UNCHANGED <<declared, parseNext, literal_table, query_table, parseLog, exitStatus>>
    /\ UNCHANGED <<colVars, rangeVars, shiftVars, lookupVars, registryVars, textVars,
                   templateVars, nameVars, travVars, findVars, bookVars>>

OrderNext ==
    ParseDefinitions \/ InsertConnect \/ InsertTable \/ InsertStatement \/ InsertCommit

OrderSpec == OrderInit /\ [][OrderNext]_vars

\* the place in the text of the expression the cursor was given an entry of
DeclaredAt(entry) ==
    CHOOSE k \in 1..Len(declared) :
        IF entry.kind = "row"
        THEN declared[k].kind = "table" /\ declared[k].name = entry.target
        ELSE declared[k].kind = "statement" /\ declared[k].text = entry.target

\* C14: the parser builds the list of expressions in the order of the text,
\* DBDatabase.insert goes through it one expression after the other, and
\* what the cursor is given follows the order of the text: nothing of an
\* expression comes after something of an expression declared later
C14_DeclarationOrder ==
    /\ parseStage = "returned" => database = declared
    /\ \A j, k \in 1..Len(dbCommitted \o dbPending) :
           j < k => DeclaredAt((dbCommitted \o dbPending)[j])
                        <= DeclaredAt((dbCommitted \o dbPending)[k])
    /\ \A k \in 1..Len(dbCommitted \o dbPending) :
           DeclaredAt((dbCommitted \o dbPending)[k]) <= dbNext

\* t2 was declared first and t1 last: the rows of t2, then the statement,
\* then the rows of t1 were executed
C14_Witness ==
    /\ dbStage = "done"
    /\ declared[1].kind = "table" /\ declared[1].name = "t2"
    /\ declared[2].kind = "statement"
    /\ declared[3].kind = "table" /\ declared[3].name = "t1"
    /\ Len(dbCommitted) = 2 * SheetRows + 1
    /\ dbCommitted[1].target = "t2"
    /\ dbCommitted[SheetRows + 1].kind = "statement"
    /\ dbCommitted[Len(dbCommitted)].target = "t1"

\* ------------------------------------------------- parsing a sheet-spec
\* most declarations, illegal characters and stray tokens before the
\* spreadsheet of a text
MaxDecls == 2

\* the text of a query as the lexer returns it, between its quotes
Quoted(string) == <<34>> \o string \o <<34>>

\* what stands before the spreadsheet of a text: the declaration of the
\* literal l as "x" or as "y", the declaration of the query q as "s" or as
\* "t", a character no token starts with, a token no rule accepts
Items ==
    {[kind |-> "literaldec", name |-> NameL, value |-> StrValue(v)] : v \in {TextX, <<121>>}}
    \cup {[kind |-> "querydec", name |-> NameQ, value |-> StrValue(Quoted(v))] :
              v \in {TextS, TextT}}
    \cup {[kind |-> k, name |-> <<>>, value |-> NoneValue] : k \in {"illegal", "syntax"}}

\* the spreadsheets { $A1 literal.l ; } and { $A1 query.q ; }
Spreadsheets ==
    {[kind |-> "spreadsheet", name |-> n, value |-> NoneValue] : n \in {NameL, NameQ}}

\* the texts: at most MaxDecls items, then a spreadsheet
SheetTexts ==
    UNION {{items \o <<sps>> : items \in [1..n -> Items], sps \in Spreadsheets}
               : n \in 0..MaxDecls}

\* SPSParser.__init__, and the arguments of SPSBook.execute
SheetInit ==
    /\ ColIdle
    /\ RangeIdle
    /\ ShiftIdle
    /\ LookupIdle
    /\ InsertIdle
    /\ TextIdle
    /\ TemplateIdle
    /\ NameIdle
    /\ TraverseIdle
    /\ FindIdle
    /\ BookIdle
    /\ registry = <<>>
    /\ regStage = "idle"
    /\ regNext = 0
    /\ regContents = <<>>
    /\ regContext = <<>>
    /\ regExc = "none"
    /\ dbname = "given"
    /\ fetched = [exc |-> "none", rows |-> <<<<StrValue(TextT)>>>>]
    /\ regConns = <<>>
    /\ declared \in SheetTexts
    /\ parseStage = "parsing"
    /\ parseNext = 1
    /\ literal_table = <<>>
    /\ query_table = <<>>
    /\ parseLog = <<>>
    /\ exitStatus = -1

\* the parser is at an item of this kind
ParserAt(kind) ==
    /\ parseStage = "parsing"
    /\ parseNext <= Len(declared)
    /\ declared[parseNext].kind = kind

\* t_error: the character is logged and skipped, and the lexer goes on
t_error ==
    /\ ParserAt("illegal")
    /\ parseLog' = Append(parseLog, "ERROR_ILLEGAL_CHAR")
    /\ parseNext' = parseNext + 1
    /\ UNCHANGED <<declared, parseStage, literal_table, query_table, exitStatus>>
    /\ UNCHANGED <<colVars, rangeVars, shiftVars, lookupVars, insertVars, registryVars,
                   textVars, templateVars, nameVars, travVars, findVars, bookVars>>

\* p_error: the token is logged and sys.exit () ends the process
p_error ==
    /\ ParserAt("syntax")
    /\ parseLog' = Append(parseLog, "ERROR_SYNTAX_ERROR")
    /\ parseStage' = "exited"
    /\ exitStatus' = 0
    /\ UNCHANGED <<declared, parseNext, literal_table, query_table>>
    /\ UNCHANGED <<colVars, rangeVars, shiftVars, lookupVars, insertVars, registryVars,
                   textVars, templateVars, nameVars, travVars, findVars, bookVars>>

\* p_literaldec: a name of the table is logged, any other is stored with
\* its value; the parser goes on in both cases
p_literaldec ==
    /\ ParserAt("literaldec")
    /\ IF declared[parseNext].name \in DOMAIN literal_table
       THEN /\ parseLog' = Append(parseLog, "ERROR_CONFLICT_LITERALS")
            /\ UNCHANGED literal_table
       ELSE /\ literal_table'
                   = literal_table @@ (declared[parseNext].name :> declared[parseNext].value)
            /\ UNCHANGED parseLog
    /\ parseNext' = parseNext + 1
    /\ UNCHANGED <<declared, parseStage, query_table, exitStatus>>
    /\ UNCHANGED <<colVars, rangeVars, shiftVars, lookupVars, insertVars, registryVars,
                   textVars, templateVars, nameVars, travVars, findVars, bookVars>>

\* p_querydec: the text of the query, p[3], is looked for among the names
\* of the table; when it is there the error is logged and sys.exit (0) ends
\* the process, otherwise the text is stored under the name, over what the
\* name had
p_querydec ==
    /\ ParserAt("querydec")
    /\ IF declared[parseNext].value.v \in DOMAIN query_table
       THEN /\ parseLog' = Append(parseLog, "ERROR_CONFLICT_QUERIES")
            /\ parseStage' = "exited"
            /\ exitStatus' = 0
            /\ UNCHANGED <<query_table, parseNext>>
       ELSE /\ query_table'
                   = [n \in DOMAIN query_table \cup {declared[parseNext].name} |->
                          IF n = declared[parseNext].name THEN declared[parseNext].value
                          ELSE query_table[n]]
            /\ parseNext' = parseNext + 1
            /\ UNCHANGED <<parseLog, parseStage, exitStatus>>
    /\ UNCHANGED <<declared, literal_table>>
    /\ UNCHANGED <<colVars, rangeVars, shiftVars, lookupVars, insertVars, registryVars,
                   textVars, templateVars, nameVars, travVars, findVars, bookVars>>

\* p_command over p_content: the command at $A1 of a named literal or of
\* a named query, with what its table holds for the name
CommandOf(item, table) ==
    [type |-> IF item.name = NameL THEN "literal" ELSE "query",
     name |-> item.name,
     range |-> <<Explicit(CellA1), Explicit(CellA1)>>,
     direction |-> "none",
     content |-> SPSCellContent(table[item.name], get_type(table[item.name]), NoneValue),
     dbref |-> ""]

\* p_content for the command of the spreadsheet: a name that its table does
\* not hold is logged and sys.exit (0) ends the process; otherwise
\* p_command, p_commands and p_spreadsheet make the registry of the command
p_content ==
    /\ ParserAt("spreadsheet")
    /\ \E table \in {IF declared[parseNext].name = NameL
                      THEN literal_table ELSE query_table} :
           IF declared[parseNext].name \notin DOMAIN table
           THEN /\ parseLog' = Append(parseLog, "ERROR_UNKNOWN_NAME")
                /\ parseStage' = "exited"
                /\ exitStatus' = 0
                /\ UNCHANGED <<registry, parseNext>>
           ELSE /\ registry' = <<CommandOf(declared[parseNext], table)>>
                /\ parseNext' = parseNext + 1
                /\ UNCHANGED <<parseLog, parseStage, exitStatus>>
    /\ UNCHANGED <<declared, literal_table, query_table>>
    /\ UNCHANGED <<regStage, regNext, regContents, regContext, regExc, queryVars>>
    /\ UNCHANGED <<colVars, rangeVars, shiftVars, lookupVars, insertVars, textVars,
                   templateVars, nameVars, travVars, findVars, bookVars>>

\* VerbatimSPSParser.run returns the book, and main calls its execute
ParseReturn ==
    /\ parseStage = "parsing"
    /\ parseNext > Len(declared)
    /\ parseStage' = "returned"
    /\ regStage' = "start"
    /\ UNCHANGED <<declared, parseNext, literal_table, query_table, parseLog, exitStatus>>
    /\ UNCHANGED <<registry, regNext, regContents, regContext, regExc, queryVars>>
    /\ UNCHANGED <<colVars, rangeVars, shiftVars, lookupVars, insertVars, textVars,
                   templateVars, nameVars, travVars, findVars, bookVars>>

SheetNext ==
    \/ t_error
    \/ p_error
    \/ p_literaldec
    \/ p_querydec
    \/ p_content
    \/ ParseReturn
    \/ RegistryStart
    \/ ExecuteLiteral
    \/ ExecuteQuery
    \/ RegistryReturn

SheetSpec == SheetInit /\ [][SheetNext]_vars

\* the text holds a second declaration of a name
DeclaredTwice(kind) ==
    \E j, k \in 1..Len(declared) :
        /\ j < k
        /\ declared[j].kind = kind
        /\ declared[k].kind = kind
        /\ declared[j].name = declared[k].name

\* the text holds a lexical, a syntax or a semantic error
TextInError ==
    \/ \E k \in 1..Len(declared) : declared[k].kind \in {"illegal", "syntax"}
    \/ DeclaredTwice("literaldec")
    \/ DeclaredTwice("querydec")
    \/ \E k \in 1..Len(declared) :
           /\ declared[k].kind = "spreadsheet"
           /\ \A j \in 1..(k - 1) :
                  ~(declared[j].name = declared[k].name
                        /\ declared[j].kind \in {"literaldec", "querydec"})

\* C15: a text with a lexical, a syntax or a semantic error (an illegal
\* character, a second declaration of a literal or of a query among them)
\* is never executed: the parser does not return, no command is executed
\* and nothing is written
C15_ErrorsAbortParse ==
    TextInError =>
        /\ parseStage # "returned"
        /\ regStage = "idle"
        /\ regContents = <<>>

\* C16: when DBDatabase.insert has ended, with or without an exception, the
\* connection it opened is closed
C16_ConnectionClosed ==
    dbStage \in {"done", "aborted"} => dbConn = "closed"

\* C17: a fatal error of the parser (a syntax error, a reference to an
\* unknown literal or query) ends the process with a status other than zero
C17_FatalExitStatus ==
    parseStage = "exited" => exitStatus > 0

\* ------------------------------------- the names given and the names held
\* the arguments of the call: each name is given or not
Givens ==
    [dbname : {"", "givendb"}, spsname : {"", "givenbook"}, sheetname : {"", "givensheet"},
     override : BOOLEAN]

\* the names of the specification text: each is there or not
Embeddeds ==
    [dbref : {"", "owndb"}, spsname : {"", "ownbook"}, sheetname : {"", "ownsheet"}]

\* the table t (a integer), column a from $A1 down, of the spreadsheet named
NamedTable(spreadsheet) ==
    [kind |-> "table", name |-> "t", spreadsheet |-> spreadsheet, text |-> "",
     block |-> [columns |-> <<[name |-> "a", contents |-> WholeColumn(<<OrdA>>),
                               type |-> "integer",
                               action |-> [action |-> "None", default |-> NoneValue]]>>,
                context |-> <<>>]]

\* a sheet with the number 1 in every cell
OnesSheet == [cell \in (0..1) \X (1..SheetRows) |-> IntValue(1)]

\* the spreadsheet { $A1 "x" ; } with the names its header holds
NamedSpreadsheet(names) ==
    [registry |-> <<[type |-> "literal", name |-> <<>>,
                     range |-> <<Explicit(CellA1), Explicit(CellA1)>>,
                     direction |-> "none",
                     content |-> SPSCellContent(StrValue(TextX), "text", NoneValue)]>>,
     spsname |-> names.spsname, sheetname |-> names.sheetname, dbref |-> names.dbref]

NameInit ==
    /\ ColIdle
    /\ RangeIdle
    /\ ShiftIdle
    /\ LookupIdle
    /\ InsertIdle
    /\ RegistryIdle
    /\ TextIdle
    /\ TemplateIdle
    /\ ParseIdle
    /\ TraverseIdle
    /\ FindIdle
    /\ BookIdle
    /\ given \in Givens
    /\ embedded \in Embeddeds
    /\ tableResult = [exc |-> "pending", spsname |-> ""]
    /\ sheetResult = [exc |-> "pending", spsname |-> "", sheetname |-> "", contents |-> <<>>]

\* DBTable.insert, for a table that names the spreadsheet of the text
TableInsert ==
    /\ tableResult.exc = "pending"
    /\ \E r \in {DBTableInsert(NamedTable(embedded.spsname), OnesSheet, given.spsname,
                                given.sheetname, given.override)} :
           tableResult' = [exc |-> r.exc,
                           spsname |-> IF r.exc = "none"
                                       THEN SpreadsheetOf(NamedTable(embedded.spsname),
                                                          given.spsname, given.override)
                                       ELSE ""]
    /\ UNCHANGED <<given, embedded, sheetResult>>
    /\ UNCHANGED <<colVars, rangeVars, shiftVars, lookupVars, insertVars, registryVars,
                   textVars, templateVars, parseVars, travVars, findVars, bookVars>>

\* SPSSpreadsheet.execute, for a spreadsheet with the names of the text
SheetExecute ==
    /\ sheetResult.exc = "pending"
    /\ sheetResult' = SPSSpreadsheetExecute(NamedSpreadsheet(embedded), given.dbname,
                                            given.spsname, given.sheetname, given.override)
    /\ UNCHANGED <<given, embedded, tableResult>>
    /\ UNCHANGED <<colVars, rangeVars, shiftVars, lookupVars, insertVars, registryVars,
                   textVars, templateVars, parseVars, travVars, findVars, bookVars>>

NameNext == TableInsert \/ SheetExecute

NameSpec == NameInit /\ [][NameNext]_vars

\* the rule of the names: override decides between two names, a single name
\* is used whatever override is, "" when there is none
RuledName(callsite, own, decides) ==
    IF callsite # "" /\ own # "" THEN (IF decides THEN callsite ELSE own)
    ELSE IF callsite # "" THEN callsite
    ELSE own

\* C18: DBTable.insert and SPSSpreadsheet.execute determine the spreadsheet
\* by the same rule: with both names override selects the one of the call
\* and otherwise the one of the text, a single name is used whatever
\* override is, and an error is raised only when there is no name
C18_SameRule ==
    LET name == RuledName(given.spsname, embedded.spsname, given.override)
    IN  /\ tableResult.exc # "pending" =>
               IF name = "" THEN tableResult.exc = "ValueError"
               ELSE tableResult.exc = "none" /\ tableResult.spsname = name
        /\ (sheetResult.exc # "pending" /\ (given.dbname # "" \/ embedded.dbref # "")) =>
               IF name = "" THEN sheetResult.exc = "ValueError"
               ELSE sheetResult.exc = "none" /\ sheetResult.spsname = name

\* ------------------------------------------------------- iteration count
\* the rectangle spanned by the two cells of the interval, as addresses:
\* <<first column, first row, last column, last row>>
IntervalRectangle ==
    LET a == Address(interval[1])
        b == Address(interval[2])
    IN  <<Min(a[1], b[1]), Min(a[2], b[2]), Max(a[1], b[1]), Max(a[2], b[2])>>

\* the addresses of the rectangle in column-major order: all the rows of the
\* first column from top to bottom, then the next column
ColumnMajorCells ==
    LET nbrows == 1 + IntervalRectangle[4] - IntervalRectangle[2]
        nbcols == 1 + IntervalRectangle[3] - IntervalRectangle[1]
    IN  [k \in 1..(nbcols * nbrows) |->
            <<IntervalRectangle[1] + ((k - 1) \div nbrows),
              IntervalRectangle[2] + ((k - 1) % nbrows)>>]

\* C19: a full loop over a Range yields number_of_columns() *
\* number_of_rows() cells, which are the cells of the rectangle in
\* column-major order, each once and none outside it, and len(range) is
\* that count
C19_FullIteration ==
    \A o \in {"ab", "ba"} : \A p \in 1..Len(passes[o]) :
        /\ Len(passes[o][p]) =
               number_of_columns(ranges[o]) * number_of_rows(ranges[o])
        /\ [k \in 1..Len(passes[o][p]) |-> Address(passes[o][p][k])] = ColumnMajorCells
        /\ RangeLen(ranges[o]) = Len(passes[o][p])

\* ------------------------------------------------- content-bounded cells
\* side of the window of a sheet whose cells are told apart, and the cells
\* of it that hold the content looked for
ScanSide == 3
MaxMatches == 2

OrdLeftBracket == 91
OrdRightBracket == 93

\* the content every descriptor here looks for, '1', and str(None)
ContentOne == <<OrdZero + 1>>
TextNone == <<78, 111, 110, 101>>

\* position of the last c in s up to position i, 0 when there is none
RECURSIVE LastIndexOf(_, _, _)
LastIndexOf(s, c, i) ==
    IF i = 0 THEN 0
    ELSE IF s[i] = c THEN i
    ELSE LastIndexOf(s, c, i - 1)

\* position of the last ']' of s up to position i that digits follow
RECURSIVE LastCloseDigits(_, _)
LastCloseDigits(s, i) ==
    IF i = 0 THEN 0
    ELSE IF s[i] = OrdRightBracket /\ DigitRun(s, i + 1) > 0 THEN i
    ELSE LastCloseDigits(s, i - 1)

\* re.match(regexp0 + '|' + regexp1, descriptor) in _traverse_cells: the
\* groups of <column>[content] ("column"), else of [content]<row> ("row"),
\* else no match ("none")
ImplicitMatch(descriptor) ==
    LET a == AlphaRun(descriptor, 1)
        c0 == LastIndexOf(descriptor, OrdRightBracket, Len(descriptor))
        c1 == LastCloseDigits(descriptor, Len(descriptor))
    IN  IF a > 0 /\ a < Len(descriptor) /\ descriptor[a + 1] = OrdLeftBracket /\ c0 > a + 1
        THEN [form |-> "column", col |-> SubSeq(descriptor, 1, a),
              content |-> SubSeq(descriptor, a + 2, c0 - 1), rw |-> <<>>]
        ELSE IF descriptor # <<>> /\ descriptor[1] = OrdLeftBracket /\ c1 > 1
        THEN [form |-> "row", col |-> <<>>,
              content |-> SubSeq(descriptor, 2, c1 - 1),
              rw |-> SubSeq(descriptor, c1 + 1, c1 + DigitRun(descriptor, c1 + 1))]
        ELSE [form |-> "none", col |-> <<>>, content |-> <<>>, rw |-> <<>>]

\* sheet.column_range().stop and sheet.row_range().stop bound the grid
InGrid(grid, a) == a[1] \in 0 .. (grid.ncols - 1) /\ a[2] \in 1 .. grid.nrows

GridCell(grid, a) == IF a \in grid.hits THEN grid.hit ELSE grid.other

\* str(sheet[current]): the text of a cell of the grid. What the sheet does
\* with a name outside the grid is not in the sources: it raises IndexError
\* or it returns None
SheetText(grid, current) ==
    IF InGrid(grid, Address(current))
    THEN {[exc |-> "none", text |-> PyStr(GridCell(grid, Address(current))).value.v]}
    ELSE {[exc |-> "IndexError", text |-> <<>>], [exc |-> "none", text |-> TextNone]}

\* where _traverse_cells is after a step: it raised, it is in the loop at
\* current, or it returns current
Raised(exc) == [exc |-> exc, stage |-> "idle", current |-> <<>>]
Scanning(current) == [exc |-> "none", stage |-> "scan", current |-> current]
Found(current) == [exc |-> "none", stage |-> "found", current |-> current]

\* the two tests of the bounds of the sheet, then the loop
Bounded(col, rw, current, grid) ==
    IF get_columnindex(col) >= grid.ncols THEN Raised("IndexError")
    ELSE IF rw > grid.nrows THEN Raised("IndexError")
    ELSE Scanning(current)

\* _traverse_cells up to its loop: an explicit descriptor is returned, an
\* implicit one gives the first cell to examine
TraverseEnterOf(descriptor, base, grid) ==
    LET m == ImplicitMatch(descriptor)
        b == IF base # <<>> THEN get_columnrow(base) ELSE <<<<OrdA>>, 1>>
    IN  IF CellMatches(descriptor) THEN Found(descriptor)
        ELSE IF m.form = "none" THEN Raised("ValueError")
        ELSE IF b[1] = ValueError THEN Raised("ValueError")
        ELSE IF m.form = "column"
             THEN Bounded(m.col, b[2], m.col \o Str(b[2]), grid)
             ELSE Bounded(b[1], IntOfDigits(m.rw), b[1] \o m.rw, grid)

\* the body of the loop once the cell read differs from the content: the
\* next cell, one row below or one column to the right
TraverseMove(form, current, grid) ==
    LET moved == add_columns(add_rows(current, IF form = "column" THEN 1 ELSE 0),
                             IF form = "column" THEN 0 ELSE 1)
        cr == get_columnrow(moved)
    IN  IF cr[1] = ValueError THEN Raised("ValueError")
        ELSE Bounded(cr[1], cr[2], moved, grid)

\* one test of the loop on the text read
TraverseLoopOf(descriptor, current, grid, read) ==
    IF read.exc # "none" THEN Raised(read.exc)
    ELSE IF read.text = ImplicitMatch(descriptor).content THEN Found(current)
    ELSE TraverseMove(ImplicitMatch(descriptor).form, current, grid)

\* the end of DBCellReference.execute: the offsets applied to the cell found
Offset(ref, cell) == add_rows(add_columns(cell, ref.coloffset), ref.rowoffset)

\* the first column of the window of a wide sheet, two before the column
\* of index 26 * 26
WideFirst == (1 + OrdZ - OrdA) * (1 + OrdZ - OrdA) - 2

\* the cells of a sheet: those holding the content as an integer among
\* empty cells, or as a string among cells holding 11
Fillings == {[hit |-> IntValue(1), other |-> EmptyString],
             [hit |-> StrValue(ContentOne), other |-> IntValue(11)]}

GridsFrom(first) ==
    {[first |-> first, ncols |-> first + ScanSide, nrows |-> ScanSide,
      hits |-> h, hit |-> f.hit, other |-> f.other] :
        h \in {h \in SUBSET ((first .. (first + ScanSide - 1)) \X (1 .. ScanSide)) :
                   Cardinality(h) <= MaxMatches},
        f \in Fillings}

Grids == GridsFrom(0) \cup GridsFrom(WideFirst)

Reference(descriptor) == [descriptor |-> descriptor, coloffset |-> 0, rowoffset |-> 0]

\* COL[1] over the columns of the window and the one after it, [1]ROW over the
\* rows 0 .. ScanSide + 1, and explicit cells down the diagonal
ColumnForms(first) ==
    {Reference(BijectiveName(first + k) \o <<OrdLeftBracket>> \o ContentOne
                   \o <<OrdRightBracket>>) : k \in 0 .. ScanSide}

RowForms ==
    {Reference(<<OrdLeftBracket>> \o ContentOne \o <<OrdRightBracket>> \o Str(n)) :
         n \in 0 .. (ScanSide + 1)}

ExplicitCells(first) ==
    {Reference(BijectiveName(first + k) \o Str(k + 1)) : k \in 0 .. ScanSide}

\* a wide sheet is entered at its window: its start is no [1]ROW, which
\* scans from column A
StartRefs(first) ==
    ExplicitCells(first) \cup ColumnForms(first)
        \cup (IF first = 0 THEN RowForms ELSE {})

EndRefs(first) == ColumnForms(first) \cup RowForms \cup ExplicitCells(first)

Pending == [exc |-> "pending", cell |-> <<>>, reads |-> <<>>]

TraverseInit ==
    /\ ColIdle
    /\ RangeIdle
    /\ ShiftIdle
    /\ LookupIdle
    /\ InsertIdle
    /\ RegistryIdle
    /\ TextIdle
    /\ TemplateIdle
    /\ ParseIdle
    /\ NameIdle
    /\ FindIdle
    /\ BookIdle
    /\ travGrid \in Grids
    /\ travRefs \in {[start |-> a, end |-> b] :
                        a \in StartRefs(travGrid.first), b \in EndRefs(travGrid.first)}
    /\ travPhase = "start"
    /\ travStage = "enter"
    /\ travCurrent = <<>>
    /\ travOut = [start |-> Pending, end |-> Pending]
    /\ travRange = <<>>

\* the base of the reference being executed: none for the start, the cell
\* of the start for the end
TraverseBase == IF travPhase = "start" THEN <<>> ELSE travOut.start.cell

\* what get_range does with the state r of _traverse_cells after the cells
\* reads were read
TraverseSettle(r, reads) ==
    \E cell \in {IF r.stage = "found" THEN Offset(travRefs[travPhase], r.current) ELSE <<>>} :
        IF r.exc # "none" \/ cell = ValueError
        THEN /\ travOut' = [travOut EXCEPT ![travPhase] =
                               [exc |-> IF r.exc # "none" THEN r.exc ELSE "ValueError",
                                cell |-> <<>>, reads |-> reads]]
             /\ travPhase' = "raised"
             /\ travStage' = "idle"
             /\ UNCHANGED <<travCurrent, travRange>>
        ELSE IF r.stage = "scan"
        THEN /\ travOut' = [travOut EXCEPT ![travPhase].reads = reads]
             /\ travCurrent' = r.current
             /\ travStage' = "scan"
             /\ UNCHANGED <<travPhase, travRange>>
        ELSE /\ travOut' = [travOut EXCEPT ![travPhase] =
                               [exc |-> "none", cell |-> cell, reads |-> reads]]
             /\ travCurrent' = <<>>
             /\ IF travPhase = "start"
                THEN /\ travPhase' = "end"
                     /\ travStage' = "enter"
                     /\ UNCHANGED travRange
                ELSE /\ travPhase' = "done"
                     /\ travStage' = "idle"
                     /\ travRange' = RangeNew(<<travOut.start.cell, cell>>)

\* DBCellReference.execute up to the loop of _traverse_cells
TraverseEnter ==
    /\ travPhase \in {"start", "end"}
    /\ travStage = "enter"
    /\ TraverseSettle(TraverseEnterOf(travRefs[travPhase].descriptor, TraverseBase,
                                      travGrid), <<>>)
    /\ UNCHANGED <<travGrid, travRefs>>
    /\ UNCHANGED <<colVars, rangeVars, shiftVars, lookupVars, insertVars, registryVars,
                   textVars, templateVars, parseVars, nameVars, findVars, bookVars>>

\* one test of the while loop of _traverse_cells and, when the cell read
\* differs, its body
TraverseRead ==
    /\ travPhase \in {"start", "end"}
    /\ travStage = "scan"
    /\ \E read \in SheetText(travGrid, travCurrent) :
           TraverseSettle(TraverseLoopOf(travRefs[travPhase].descriptor, travCurrent,
                                         travGrid, read),
                          Append(travOut[travPhase].reads, Address(travCurrent)))
    /\ UNCHANGED <<travGrid, travRefs>>
    /\ UNCHANGED <<colVars, rangeVars, shiftVars, lookupVars, insertVars, registryVars,
                   textVars, templateVars, parseVars, nameVars, findVars, bookVars>>

TraverseNext == TraverseEnter \/ TraverseRead

TraverseSpec == TraverseInit /\ [][TraverseNext]_vars

\* the addresses a scan for the reference of phase p goes through, from
\* the base position on: the k-th is k rows below or k columns to the right
ScanOrigin(p) ==
    LET m == ImplicitMatch(travRefs[p].descriptor)
        b == IF p = "start" THEN <<0, 1>> ELSE Address(travOut.start.cell)
    IN  IF m.form = "column" THEN <<get_columnindex(m.col), b[2]>>
        ELSE <<b[1], IntOfDigits(m.rw)>>

ScanAt(p, k) ==
    IF ImplicitMatch(travRefs[p].descriptor).form = "column"
    THEN <<ScanOrigin(p)[1], ScanOrigin(p)[2] + k>>
    ELSE <<ScanOrigin(p)[1] + k, ScanOrigin(p)[2]>>

\* the steps of the scan at which a cell of the grid holds the content
ScanHits(p) ==
    {k \in 0 .. (2 * ScanSide) :
        /\ InGrid(travGrid, ScanAt(p, k))
        /\ PyStr(GridCell(travGrid, ScanAt(p, k))).value.v
               = ImplicitMatch(travRefs[p].descriptor).content}

FirstHit(p) == CHOOSE k \in ScanHits(p) : \A j \in ScanHits(p) : k <= j

\* C20: resolving COL[expr] or [expr]ROW ends after at most one read per
\* row and column of the grid; it returns the first cell from the base
\* position on whose text is expr, raises an index error when the grid has
\* no such cell, and reads no cell outside the grid
C20_ContentBounded ==
    \A p \in {"start", "end"} :
        (travPhase # "idle" /\ travOut[p].exc # "pending"
            /\ ImplicitMatch(travRefs[p].descriptor).form # "none") =>
            /\ \A k \in 1 .. Len(travOut[p].reads) : InGrid(travGrid, travOut[p].reads[k])
            /\ Len(travOut[p].reads) <= travGrid.ncols + travGrid.nrows
            /\ IF ScanHits(p) = {}
               THEN travOut[p].exc = "IndexError"
               ELSE /\ travOut[p].exc = "none"
                    /\ Address(travOut[p].cell) = ScanAt(p, FirstHit(p))

\* ------------------------------------------------- columns of one length
\* the _data of the columns of expression k after the first loop of
\* DBBlock.lookup, before any is extended
LookedUp(k) ==
    LookupColumns(database[k].block.columns, sheet,
                  [exc |-> "none", data |-> <<>>, log |-> <<>>])

\* the tables DBDatabase.insert has been through, the one it left with an
\* exception included
Looked ==
    {k \in 1..Len(database) :
        /\ database[k].kind = "table"
        /\ dbStage \in {"loop", "done", "aborted"}
        /\ k < dbNext \/ (k = dbNext /\ dbStage = "aborted")}

\* the columns whose length is neither 1 nor the length of the longest
Mismatched(datas) ==
    {c \in 1..Len(datas) : Len(datas[c]) \notin {1, MaxLength(datas)}}

\* what C21 says of table k, whose columns held datas once looked up
ExtendedOrAborted(k, datas) ==
    /\ Mismatched(datas) # {} =>
           /\ k = dbNext
           /\ dbStage = "aborted"
           /\ dbExc = "SystemExit"
           /\ SubmittedTo(database[k].name) = <<>>
    /\ Mismatched(datas) = {} =>
           /\ k < dbNext
           /\ \A c \in 1..Len(dbColumns[k]) :
                  /\ Len(dbColumns[k][c]) = MaxLength(datas)
                  /\ \A i \in 1..Len(dbColumns[k][c]) :
                         dbColumns[k][c][i] =
                             IF Len(datas[c]) = 1 THEN datas[c][1] ELSE datas[c][i]
           /\ ~HasModifier(database[k].block.context, "enforce_unique") =>
                  SubmittedTo(database[k].name) = ResolvedRows(dbColumns[k])
           /\ \A j \in 1..Len(SubmittedTo(database[k].name)) :
                  \E i \in 1..MaxLength(datas) :
                      SubmittedTo(database[k].name)[j] = RowAt(dbColumns[k], i)

\* C21: once the columns of a block are looked up, a column of one value is
\* replicated to the length of the longest column and a column of a length
\* that is neither 1 nor that maximum ends the run; without such a column
\* all columns end with the same length and the rows are built position
\* by position
C21_ExtendOrAbort ==
    \A k \in Looked :
        \A looked \in {LookedUp(k)} :
            looked.exc = "none" => ExtendedOrAborted(k, looked.data)

\* column c of t2 is the single cell $A1 and column d has SheetRows cells:
\* c was replicated and t2 got SheetRows rows with the same first field
C21_Witness ==
    /\ dbStage = "done"
    /\ Len(LookedUp(3).data[1]) = 1
    /\ Len(dbColumns[3][1]) = SheetRows
    /\ Len(SubmittedTo("t2")) = SheetRows
    /\ \A j \in 1..SheetRows : SubmittedTo("t2")[j][1] = LookedUp(3).data[1][1]

\* -------------------------------------------------- rows met several times
\* a column read from its first cell down and then at its first cell again
ColumnAndFirst(columnname) ==
    WholeColumn(columnname)
        \o <<RangeContent(CellName(columnname, 1), CellName(columnname, 1))>>

\* table t3: integer column a and text column b read that way, so that the
\* first row of the sheet is resolved once more after the last
RepeatTables ==
    {[kind |-> "table", name |-> "t3", spreadsheet |-> "", text |-> "",
      block |-> [columns |-> <<[name |-> "a", contents |-> ColumnAndFirst(<<OrdA>>),
                                type |-> "integer",
                                action |-> [action |-> "None", default |-> NoneValue]],
                               [name |-> "b", contents |-> ColumnAndFirst(<<OrdA + 1>>),
                                type |-> "text",
                                action |-> [action |-> "None", default |-> NoneValue]]>>,
                 context |-> context]] :
     context \in Contexts}

RepeatInit ==
    /\ ColIdle
    /\ RangeIdle
    /\ ShiftIdle
    /\ RegistryIdle
    /\ TextIdle
    /\ TemplateIdle
    /\ ParseIdle
    /\ NameIdle
    /\ TraverseIdle
    /\ FindIdle
    /\ BookIdle
    /\ column = <<>>
    /\ lookupStage = "idle"
    /\ lookup = <<>>
    /\ sheet \in InsertSheets
    /\ database \in {<<first, Statement>> : first \in RepeatTables}
    /\ spsname = "book"
    /\ override = FALSE
    /\ dbStage = "start"
    /\ dbNext = 1
    /\ dbConn = "none"
    /\ dbPending = <<>>
    /\ dbCommitted = <<>>
    /\ dbColumns = [k \in 1..Len(database) |-> <<>>]
    /\ dbLog = [k \in 1..Len(database) |-> <<>>]
    /\ dbExc = "none"

RepeatNext == InsertConnect \/ InsertTable \/ InsertStatement \/ InsertCommit

RepeatSpec == RepeatInit /\ [][RepeatNext]_vars

\* how many times a row is among rows
Occurrences(rows, row) == Cardinality({i \in 1..Len(rows) : rows[i] = row})

\* the rows that are several times among rows
RepeatedRows(rows) ==
    {rows[i] : i \in {j \in 1..Len(rows) : Occurrences(rows, rows[j]) >= 2}}

\* C22: under check_duplicates a row met k >= 2 times among the resolved rows
\* is warned about once: there are as many duplicate warnings as rows that
\* are repeated
C22_OneWarningPerRow ==
    \A k \in Inserted :
        HasModifier(database[k].block.context, "check_duplicates") =>
            Count(dbLog[k], "WARNING_DUPLICATED_ROW")
                = Cardinality(RepeatedRows(ResolvedRows(dbColumns[k])))

\* ---------------------------------------------------------- the midpoints
\* the first command is a named literal and has gone through the loop that
\* writes its cells
NamedWritten ==
    /\ regStage \in {"loop", "aborted", "done"}
    /\ registry[1].type = "literal"
    /\ registry[1].name = NameL
    /\ regNext >= 2 \/ (regStage = "aborted" /\ regExc \notin {"ValueError", "KeyError"})

\* C23: a named literal registers north and south at the column
\* floor((left + right) / 2) and west and east at the row
\* floor((top + bottom) / 2) of its bounding box, also when left + right or
\* top + bottom is odd, and the registration always completes
C23_MidpointsFloor ==
    NamedWritten =>
        \A box \in {BoxOf(Rectangle(registry[1]))} :
            /\ regNext >= 2
            /\ regContext[VariableOf(NameL, SideNorth)]
                   = CellName(BijectiveName((box.left + box.right) \div 2), box.top)
            /\ regContext[VariableOf(NameL, SideSouth)]
                   = CellName(BijectiveName((box.left + box.right) \div 2), box.bottom)
            /\ regContext[VariableOf(NameL, SideWest)]
                   = CellName(BijectiveName(box.left), (box.top + box.bottom) \div 2)
            /\ regContext[VariableOf(NameL, SideEast)]
                   = CellName(BijectiveName(box.right), (box.top + box.bottom) \div 2)

\* ------------------------------------------------------- formulas dragged
\* the cell offset[1] columns and offset[2] rows away from a cell name
Moved(cellname, offset) ==
    CellName(BijectiveName(Address(cellname)[1] + offset[1]),
             Address(cellname)[2] + offset[2])

\* a formula with every cell reference that no '$' qualifies moved once by
\* an offset, from position i on: a reference is a run of letters followed
\* by a run of digits, a qualified one is left as it is
RECURSIVE ShiftedOnce(_, _, _)
ShiftedOnce(string, offset, i) ==
    IF i > Len(string) THEN <<>>
    ELSE LET a == AlphaRun(string, i)
             d == DigitRun(string, i + a)
             qualified == i > 1 /\ string[i - 1] = OrdDollar
         IN  IF a > 0 /\ d > 0
             THEN (IF qualified THEN SubSeq(string, i, i + a + d - 1)
                   ELSE Moved(SubSeq(string, i, i + a + d - 1), offset))
                      \o ShiftedOnce(string, offset, i + a + d)
             ELSE IF a > 0
             THEN SubSeq(string, i, i + a - 1) \o ShiftedOnce(string, offset, i + a)
             ELSE <<string[i]>> \o ShiftedOnce(string, offset, i + 1)

\* C24: a formula written over a range is stored in each cell with every
\* reference that no '$' qualifies moved once by the offset of the cell
\* from the start of the range
C24_DraggedOnce ==
    (FirstExecuted /\ registry[1].content.type = "formula") =>
        \A box \in {BoxOf(Rectangle(registry[1]))} :
            \A a \in Rectangle(registry[1]) :
                regContents[a[2]][a[1] + 1].data
                    = StrValue(ShiftedOnce(registry[1].content.data.v,
                                           <<a[1] - box.left, a[2] - box.top>>, 1))

\* --------------------------------------------------------- tuples written
\* the addresses of the range of a command in the order a Range goes through
\* a rectangle: every row of its first column, then the next column
CommandCells(command) ==
    LET box == BoxOf(Rectangle(command))
        nbrows == 1 + box.bottom - box.top
        nbcols == 1 + box.right - box.left
    IN  [k \in 1..(nbcols * nbrows) |->
            <<box.left + ((k - 1) \div nbrows), box.top + ((k - 1) % nbrows)>>]

\* the address of a cell of the range once the range has been slid k times
\* by its own size in the direction of the command
SlidTimes(command, a, k) ==
    LET box == BoxOf(Rectangle(command))
    IN  IF command.direction = "down"
        THEN <<a[1], a[2] + k * (1 + box.bottom - box.top)>>
        ELSE <<a[1] + k * (1 + box.right - box.left), a[2]>>

\* the content of the array at an address, None where nothing was written
ContentAt(data, a) ==
    IF a[2] <= Len(data) /\ a[1] < Len(data[a[2]]) THEN data[a[2]][a[1] + 1]
    ELSE NoneValue

\* what a query stores for a value of a tuple
Stored(command, value) ==
    SPSCellContent(cast_value(value, get_type(value)).value, get_type(value),
                   command.content.attributes)

\* the tuples fetched were written one after the other, each in its own
\* cells
TuplesApart(command, cells, rows) ==
    /\ \A k \in 1..Len(rows) : \A i \in 1..Len(cells) :
           i <= Len(rows[k]) =>
               ContentAt(regContents, SlidTimes(command, cells[i], k - 1))
                   = Stored(command, rows[k][i])
    /\ Len(cells) > 0
    /\ Cardinality(Filled(regContents)) = Len(rows) * Len(cells)

\* C25: tuple number k of a query (from 0) is written field by field into
\* the cells of the declared range shifted by k times its height with the
\* direction down, or k times its width with the direction right: the cells
\* of two tuples never overlap and no tuple is lost
C25_TuplesApart ==
    (QueryExecuted /\ registry[1].direction \in {"down", "right"}) =>
        TuplesApart(registry[1], CommandCells(registry[1]), fetched.rows)

\* ---------------------------------------------------------------------
\* FindSpec: PRGProcessor._find_templates over the text of a configuration
\* file, one definition found by re.finditer at a time
\* ---------------------------------------------------------------------
\* the largest number of definitions and other pieces of a text
MaxItems == 4

OrdLeftBrace == 123
OrdRightBrace == 125

\* the word "template"
TextTemplate == <<116, 101, 109, 112, 108, 97, 116, 101>>

\* length of the longest run of characters other than '}' in s from i on
RECURSIVE BodyRun(_, _)
BodyRun(s, i) ==
    IF i <= Len(s) /\ s[i] # OrdRightBrace THEN 1 + BodyRun(s, i + 1) ELSE 0

\* position after the arguments that follow the first one and the closing
\* parenthesis, (,\s*\w+)*\s*\) in REGEXP_TEMPLATE and (,\s*\w+\s*)*\s*\)
\* in REGEXP_TEMPLATE_GROUPS (trailing), from position i of s on; 0 when
\* they do not match
RECURSIVE ArgsEnd(_, _, _)
ArgsEnd(s, i, trailing) ==
    IF i > Len(s) THEN 0
    ELSE IF s[i] = OrdComma
    THEN LET w == i + 1 + RunLength("spaces", s, i + 1)
             run == RunLength("alnum", s, w)
         IN  IF run = 0 THEN 0
             ELSE ArgsEnd(s, w + run + (IF trailing THEN RunLength("spaces", s, w + run)
                                        ELSE 0), trailing)
    ELSE LET close == i + RunLength("spaces", s, i)
         IN  IF close <= Len(s) /\ s[close] = OrdRightParenthesis THEN close + 1 ELSE 0

\* no match
NoTemplate == [end |-> 0, name |-> <<>>, args |-> <<>>, body |-> <<>>]

\* \{([^}]+)\}: the body of run characters that follows the brace
TemplateBody(s, name, first, after, brace, run) ==
    IF run = 0 \/ brace + run + 1 > Len(s) THEN NoTemplate
    ELSE [end |-> brace + run + 2,
          name |-> SubSeq(s, name, name + RunLength("alnum", s, name) - 1),
          args |-> SubSeq(s, first, after - 2),
          body |-> SubSeq(s, brace + 1, brace + run)]

\* \s*\{ after the closing parenthesis
TemplateBrace(s, name, first, after, brace) ==
    IF after = 0 \/ brace > Len(s) \/ s[brace] # OrdLeftBrace THEN NoTemplate
    ELSE TemplateBody(s, name, first, after, brace, BodyRun(s, brace + 1))

\* the arguments from first on and the closing parenthesis
TemplateArgs(s, name, first, after) ==
    TemplateBrace(s, name, first, after, after + RunLength("spaces", s, after))

\* \(\s*\w* after the name
TemplateOpen(s, name, open, first, trailing) ==
    IF open > Len(s) \/ s[open] # OrdLeftParenthesis THEN NoTemplate
    ELSE TemplateArgs(s, name, first,
                      ArgsEnd(s, first + RunLength("alnum", s, first), trailing))

\* \w+\s* from name on
TemplateName(s, name, open, trailing) ==
    TemplateOpen(s, name, open, open + 1 + RunLength("spaces", s, open + 1), trailing)

\* \s+ after the word template, which ends before position word
TemplateSpaces(s, word, name, trailing) ==
    IF word = 0 \/ name = word \/ RunLength("alnum", s, name) = 0 THEN NoTemplate
    ELSE TemplateName(s, name,
                      name + RunLength("alnum", s, name)
                          + RunLength("spaces", s, name + RunLength("alnum", s, name)),
                      trailing)

TemplateNamed(s, word, trailing) ==
    TemplateSpaces(s, word, word + RunLength("spaces", s, word), trailing)

\* the match of REGEXP_TEMPLATE (of REGEXP_TEMPLATE_GROUPS when trailing) at
\* position i of s: the position after it (0 when there is none), and its
\* name, its arguments and its body
TemplateMatch(s, i, trailing) ==
    TemplateNamed(s, MatchFrom(LitPattern(TextTemplate), s, i), trailing)

\* the next match of re.finditer (REGEXP_TEMPLATE) in s from position i on:
\* where it starts and the position after it, 0 and 0 when there is none
RECURSIVE NextDefinition(_, _)
\* the match that ends at end when there is one at i, the next one otherwise
MatchOrNext(s, i, end) ==
    IF end # 0 THEN [start |-> i, end |-> end] ELSE NextDefinition(s, i + 1)

NextDefinition(s, i) ==
    IF i > Len(s) THEN [start |-> 0, end |-> 0]
    ELSE MatchOrNext(s, i, TemplateMatch(s, i, FALSE).end)

\* the arguments written between the parentheses: split by the commas,
\* stripped, the empty ones removed
ArgsOf(string) ==
    LET pieces == Split(string, <<>>)
    IN  SelectSeq([k \in 1..Len(pieces) |-> Strip(pieces[k])], LAMBDA a : a # <<>>)

\* PRGTemplate (definition): _parse_template raises ValueError when
\* REGEXP_TEMPLATE_GROUPS does not match at the start of the definition
PRGTemplateRaises(definition) == TemplateMatch(definition, 1, TRUE).end = 0

\* and otherwise takes the name, the arguments and the body from the match
PRGTemplateOf(definition) ==
    LET m == TemplateMatch(definition, 1, TRUE)
    IN  PRGTemplate(m.name, ArgsOf(m.args), m.body)

\* the loop over the templates found so far: the text of the definition
\* after the calls to each of them were substituted, in their order
RECURSIVE SubstPrevious(_, _, _)
SubstPrevious(string, templates, k) ==
    IF string = ValueError \/ k > Len(templates) THEN string
    ELSE SubstPrevious(subst_template(string, templates[k]), templates, k + 1)

\* the definitions template f(a){__a__+1}, template f(){k}, template g(){2},
\* template g(b){f(__b__)} and template h(){f(g())}
DefinitionTexts ==
    {<<116, 101, 109, 112, 108, 97, 116, 101, 32, 102, 40, 97, 41, 123, 95, 95, 97, 95, 95, 43, 49, 125>>,
     <<116, 101, 109, 112, 108, 97, 116, 101, 32, 102, 40, 41, 123, 107, 125>>,
     <<116, 101, 109, 112, 108, 97, 116, 101, 32, 103, 40, 41, 123, 50, 125>>,
     <<116, 101, 109, 112, 108, 97, 116, 101, 32, 103, 40, 98, 41, 123, 102, 40, 95, 95, 98, 95, 95, 41, 125>>,
     <<116, 101, 109, 112, 108, 97, 116, 101, 32, 104, 40, 41, 123, 102, 40, 103, 40, 41, 41, 125>>}

\* what stands between the definitions: "x" or a newline
Fillers == {<<120>>, <<OrdNewline>>}

RECURSIVE Joined(_)
Joined(items) == IF items = <<>> THEN <<>> ELSE Head(items) \o Joined(Tail(items))

\* the texts of at most MaxItems definitions and fillers, in any order
ConfigTexts ==
    {Joined(items) : items \in UNION {[1..n -> DefinitionTexts \cup Fillers] :
                                         n \in 1..MaxItems}}

FindInit ==
    /\ ColIdle
    /\ RangeIdle
    /\ ShiftIdle
    /\ LookupIdle
    /\ InsertIdle
    /\ RegistryIdle
    /\ TextIdle
    /\ TemplateIdle
    /\ ParseIdle
    /\ NameIdle
    /\ TraverseIdle
    /\ BookIdle
    /\ findContents \in ConfigTexts
    /\ findFrom = 1
    /\ findIndex = 0
    /\ findTemplates = <<>>
    /\ findText = <<>>
    /\ findStage = "scan"

\* one turn of the loop of _find_templates on the definition m: its text is
\* substituted with the templates found so far, the template it makes is
\* appended, the text up to its start is copied and the index moves; an
\* exception of subst_template or of PRGTemplate leaves the loop
FindTurn(m, body) ==
    IF body = ValueError \/ PRGTemplateRaises(body)
    THEN /\ findStage' = "aborted"
         /\ UNCHANGED <<findFrom, findIndex, findTemplates, findText>>
    ELSE /\ findTemplates' = Append(findTemplates, PRGTemplateOf(body))
         /\ findText' = findText \o SubSeq(findContents, findIndex + 1, m.start - 1)
         /\ findIndex' = m.end
         /\ findFrom' = m.end
         /\ findStage' = "scan"

FindTemplate ==
    /\ findStage = "scan"
    /\ \E m \in {NextDefinition(findContents, findFrom)} :
           /\ m.start # 0
           /\ FindTurn(m, SubstPrevious(SubSeq(findContents, m.start, m.end - 1),
                                        findTemplates, 1))
    /\ UNCHANGED findContents
    /\ UNCHANGED <<colVars, rangeVars, shiftVars, lookupVars, insertVars, registryVars,
                   textVars, templateVars, parseVars, nameVars, travVars, bookVars>>

\* after the last definition the text that follows the index is copied
FindRest ==
    /\ findStage = "scan"
    /\ NextDefinition(findContents, findFrom).start = 0
    /\ findText' = findText \o SubSeq(findContents, findIndex + 1, Len(findContents))
    /\ findStage' = "done"
    /\ UNCHANGED <<findContents, findFrom, findIndex, findTemplates>>
    /\ UNCHANGED <<colVars, rangeVars, shiftVars, lookupVars, insertVars, registryVars,
                   textVars, templateVars, parseVars, nameVars, travVars, bookVars>>

FindNext == FindTemplate \/ FindRest

FindSpec == FindInit /\ [][FindNext]_vars

\* the definitions of a text in the order re.finditer finds them, as written
RECURSIVE DefinitionsFrom(_, _)
DefinitionsFrom(s, i) ==
    LET m == NextDefinition(s, i)
    IN  IF m.start = 0 THEN <<>>
        ELSE <<TemplateMatch(s, m.start, FALSE)>> \o DefinitionsFrom(s, m.end)

\* a text with every call to a template replaced, where it stands, by what
\* the template makes of the arguments of the call
RECURSIVE ExpandedBy(_, _, _)
ExpandedBy(template, string, i) ==
    IF i > Len(string) THEN <<>>
    ELSE LET e == CallEnd(template.name, string, i)
         IN  IF e = 0 THEN <<string[i]>> \o ExpandedBy(template, string, i + 1)
             ELSE PRGTemplateSubstituteUnchecked(template,
                                                 CallArgs(SubSeq(string, i, e - 1)))
                      \o ExpandedBy(template, string, e)

\* a body with the calls to each of the templates expanded, one template
\* after the other in their order
RECURSIVE Expanded(_, _, _)
Expanded(templates, string, k) ==
    IF k > Len(templates) THEN string
    ELSE Expanded(templates, ExpandedBy(templates[k], string, 1), k + 1)

\* the template stored for the k-th definition: its name and arguments are
\* those written, its body is the body written with the calls to the
\* templates before it expanded, and no call to any of them is left in it
StoredExpanded(written, k) ==
    /\ findTemplates[k].name = written.name
    /\ findTemplates[k].args = PRGTemplate(written.name, ArgsOf(written.args), <<>>).args
    /\ findTemplates[k].body = Expanded(SubSeq(findTemplates, 1, k - 1), written.body, 1)
    /\ \A j \in 1..(k - 1) : FindCalls(findTemplates[j].name, findTemplates[k].body, 1) = <<>>

\* C26: every template is registered with its text rewritten by the calls to
\* the templates registered before it, so that the stored body of a template
\* that invokes an earlier one holds the expansion and not the call
C26_StoredExpanded ==
    \A written \in {DefinitionsFrom(findContents, 1)} :
        \A k \in 1..Len(findTemplates) : StoredExpanded(written[k], k)

\* a text without the characters of its definitions, from position i on
RECURSIVE WithoutDefinitions(_, _)
\* from position i on when a definition ending at end stands there
SkipOrKeep(s, i, end) ==
    IF end # 0 THEN WithoutDefinitions(s, end)
    ELSE <<s[i]>> \o WithoutDefinitions(s, i + 1)

WithoutDefinitions(s, i) ==
    IF i > Len(s) THEN <<>>
    ELSE SkipOrKeep(s, i, TemplateMatch(s, i, FALSE).end)

\* C27: after the definitions were collected the remaining text is the
\* original text with exactly the characters of the definitions removed,
\* whatever follows the closing brace of a definition
C27_OnlyDefinitionsRemoved ==
    findStage = "done" => findText = WithoutDefinitions(findContents, 1)

\* ---------------------------------------------------------------------
\* BoundedSpec: DBColumn.lookup on a column whose content is one range of
\* explicit or content-bounded cells; get_range is followed step by step
\* ---------------------------------------------------------------------
\* the sheet of a grid, as DBColumn.lookup reads it
SheetOf(grid) ==
    [a \in (0 .. (grid.ncols - 1)) \X (1 .. grid.nrows) |-> GridCell(grid, a)]

\* the actions Error, Warning and None (0)
BoundedActions ==
    {[action |-> "Error", default |-> NoneValue],
     [action |-> "Warning", default |-> NoneValue],
     [action |-> "None", default |-> IntValue(0)]}

BoundedInit ==
    /\ ColIdle
    /\ RangeIdle
    /\ ShiftIdle
    /\ InsertIdle
    /\ RegistryIdle
    /\ TextIdle
    /\ TemplateIdle
    /\ ParseIdle
    /\ NameIdle
    /\ FindIdle
    /\ BookIdle
    /\ travGrid \in GridsFrom(0)
    /\ travRefs \in {[start |-> a, end |-> b] : a \in StartRefs(0), b \in EndRefs(0)}
    /\ travPhase = "start"
    /\ travStage = "enter"
    /\ travCurrent = <<>>
    /\ travOut = [start |-> Pending, end |-> Pending]
    /\ travRange = <<>>
    /\ column \in {[name |-> "a", type |-> "integer", action |-> a,
                    contents |-> <<[kind |-> "range", data |-> NoneValue,
                                    start |-> travRefs.start, end |-> travRefs.end]>>] :
                      a \in BoundedActions}
    /\ sheet = SheetOf(travGrid)
    /\ lookupStage = "ready"
    /\ lookup = [exc |-> "none", data |-> <<>>, log |-> <<>>]

\* the rest of DBColumn.lookup once get_range has returned or raised: an
\* exception of get_range is raised outside every try block and leaves
\* lookup; otherwise the cells of the range are read and resolved
BoundedLookup ==
    /\ lookupStage = "ready"
    /\ travPhase \in {"done", "raised"}
    /\ lookup' = IF travPhase = "raised"
                 THEN [exc |-> IF travOut.start.exc \notin {"none", "pending"}
                               THEN travOut.start.exc ELSE travOut.end.exc,
                       data |-> <<>>, log |-> <<>>]
                 ELSE LookupCells(column, sheet, RangeCellsFrom(travRange, <<>>),
                                  [exc |-> "none", data |-> <<>>, log |-> <<>>])
    /\ lookupStage' = "done"
    /\ UNCHANGED <<column, sheet>>
    /\ UNCHANGED <<colVars, rangeVars, shiftVars, insertVars, registryVars, textVars,
                   templateVars, parseVars, nameVars, travVars, findVars, bookVars>>

BoundedNext == TraverseEnter \/ TraverseRead \/ BoundedLookup

BoundedSpec == BoundedInit /\ [][BoundedNext]_vars

\* C28: an address error met while a column is looked up (a cell outside
\* the grid, a content-bounded cell that is not found) is handled by the
\* action of the column: with Warning and None the lookup goes on, and it
\* is only with Error that it ends with an exception
C28_AddressErrorsHandled ==
    (lookupStage = "done" /\ column.action.action \in {"Warning", "None"}) =>
        lookup.exc = "none"

\* ---------------------------------------------------------------------
\* AbandonSpec: for loops over a Range object, some of them left by a break
\* or an exception before the object is exhausted
\* ---------------------------------------------------------------------
\* loops of an object that may be left before exhaustion: those started
\* while fewer than MaxBreaks loops over it have run to their end
MaxBreaks == 1

\* the loop in progress, which started at the start cell, is left before
\* StopIteration and a new for loop starts on the same object:
\* Range.__iter__ returns the object as it is
IterAbandon ==
    /\ turn \in {"ab", "ba"}
    /\ yielded # <<>>
    /\ Len(passes[turn]) < MaxBreaks
    /\ ranges[turn].current - Len(yielded) = Rewound(ranges[turn]).current
    /\ yielded' = <<>>
    /\ UNCHANGED <<interval, ranges, turn, passes>>
    /\ UNCHANGED <<colVars, shiftVars, lookupVars, insertVars, registryVars, textVars,
                   templateVars, parseVars, nameVars, travVars, findVars, bookVars>>

\* the cells of the columns A and B and the rows 1 to 3
AbandonInputs ==
    {CellName(c, n) : c \in {<<OrdA>>, <<OrdA + 1>>}, n \in 1..3}

AbandonInit ==
    /\ ColIdle
    /\ ShiftIdle
    /\ LookupIdle
    /\ InsertIdle
    /\ RegistryIdle
    /\ TextIdle
    /\ TemplateIdle
    /\ ParseIdle
    /\ NameIdle
    /\ TraverseIdle
    /\ FindIdle
    /\ BookIdle
    /\ interval \in AbandonInputs \X AbandonInputs
    /\ ranges = [o \in {"ab", "ba"} |->
                    IF o = "ab" THEN RangeNew(interval)
                    ELSE RangeNew(<<interval[2], interval[1]>>)]
    /\ turn = "ab"
    /\ yielded = <<>>
    /\ passes = [o \in {"ab", "ba"} |-> <<>>]

AbandonNext == IterNext \/ IterAbandon

AbandonSpec == AbandonInit /\ [][AbandonNext]_vars

\* the cells a loop over a new object of the same corners yields: those
\* from its cursor to its last index
FreshCells(o) ==
    LET r == RangeNew(IF o = "ab" THEN interval ELSE <<interval[2], interval[1]>>)
    IN  [k \in 1..(1 + r.enditer - r.current) |->
            get_cellname(r.current + k - 1, r.startrow, 1 + r.endrow - r.startrow)]

\* C29: every new loop over a Range starts at the start cell of the range
\* and yields the complete sequence, whatever happened to the object
\* before, a loop left before exhaustion included
C29_LoopsFromStart ==
    /\ \A o \in {"ab", "ba"} : \A p \in 1..Len(passes[o]) : passes[o][p] = FreshCells(o)
    /\ (turn \in {"ab", "ba"} /\ yielded # <<>>) =>
           yielded = SubSeq(FreshCells(turn), 1, Len(yielded))

\* ---------------------------------------------------------------------
\* BookSpec: SPSBook.execute over a book of spreadsheets { $A1 "x" ; },
\* one spreadsheet and then one file at a time
\* ---------------------------------------------------------------------
\* the largest number of spreadsheets of a book
MaxSheets == 2

\* the names of files re.match (".*\.xls[x]?", name) accepts
ExcelNames == {"own.xlsx", "given.xls"}

\* the arguments of the call: nothing, a database, or every name without
\* and with override
BookGivens ==
    {[dbname |-> "", spsname |-> "", sheetname |-> "", override |-> FALSE],
     [dbname |-> "givendb", spsname |-> "", sheetname |-> "", override |-> FALSE],
     [dbname |-> "givendb", spsname |-> "given.xls", sheetname |-> "givensheet",
      override |-> FALSE],
     [dbname |-> "givendb", spsname |-> "given.xls", sheetname |-> "givensheet",
      override |-> TRUE]}

\* the names a spreadsheet of the book holds
BookEmbeddeds ==
    [dbref : {"", "owndb"}, spsname : {"", "own.xlsx", "other.ods"},
     sheetname : {"", "ownsheet"}]

BookInit ==
    /\ ColIdle
    /\ RangeIdle
    /\ ShiftIdle
    /\ LookupIdle
    /\ InsertIdle
    /\ RegistryIdle
    /\ TextIdle
    /\ TemplateIdle
    /\ ParseIdle
    /\ NameIdle
    /\ TraverseIdle
    /\ FindIdle
    /\ book \in UNION {[1..n -> {NamedSpreadsheet(e) : e \in BookEmbeddeds}] :
                          n \in 1..MaxSheets}
    /\ bookGiven \in BookGivens
    /\ bookNext = 1
    /\ bookFiles = <<>>
    /\ bookWritten = <<>>
    /\ bookStage = "execute"

\* where a file stands among the keys of files, 0 when it is no key
FileIndex(files, filename) ==
    IF \E k \in 1..Len(files) : files[k].filename = filename
    THEN CHOOSE k \in 1..Len(files) : files[k].filename = filename
    ELSE 0

\* the body of the first loop once the spreadsheet has returned r: the sheet
\* opens a new file or is added to the file it names; ValueError when that
\* file already holds a sheet of its name
Collected(files, r) ==
    LET k == FileIndex(files, r.spsname)
        entry == [name |-> r.sheetname, contents |-> r.contents]
    IN  IF k = 0
        THEN [exc |-> "none",
              files |-> Append(files, [filename |-> r.spsname, sheets |-> <<entry>>])]
        ELSE IF \E j \in 1..Len(files[k].sheets) : files[k].sheets[j].name = r.sheetname
        THEN [exc |-> "ValueError", files |-> files]
        ELSE [exc |-> "none",
              files |-> [files EXCEPT ![k].sheets = Append(@, entry)]]

\* one turn of the first loop of SPSBook.execute: the spreadsheet is
\* executed and its sheet collected; an exception leaves execute
BookTurn ==
    /\ bookStage = "execute"
    /\ bookNext <= Len(book)
    /\ \E r \in {SPSSpreadsheetExecute(book[bookNext], bookGiven.dbname, bookGiven.spsname,
                                       bookGiven.sheetname, bookGiven.override)} :
           IF r.exc # "none" \/ Collected(bookFiles, r).exc # "none"
           THEN bookStage' = "aborted" /\ UNCHANGED <<bookNext, bookFiles>>
           ELSE /\ bookFiles' = Collected(bookFiles, r).files
                /\ bookNext' = bookNext + 1
                /\ bookStage' = "execute"
    /\ UNCHANGED <<book, bookGiven, bookWritten>>
    /\ UNCHANGED <<colVars, rangeVars, shiftVars, lookupVars, insertVars, registryVars,
                   textVars, templateVars, parseVars, nameVars, travVars, findVars>>

\* a slip: each file is written as soon as a sheet of it is collected
WritingStartsAtOnce == TRUE

\* the second loop, over the files to generate, stands after the first one
WritingStarts == bookNext > Len(book)

\* one turn of the second loop: the next file is written, with xlsxwriter
\* when its name is one of an excel file and with pyexcel otherwise
BookWrite ==
    /\ bookStage = "execute"
    /\ WritingStarts
    /\ Len(bookWritten) < Len(bookFiles)
    /\ \E file \in {bookFiles[Len(bookWritten) + 1]} :
           bookWritten' = Append(bookWritten,
                                 [filename |-> file.filename, sheets |-> file.sheets,
                                  writer |-> IF file.filename \in ExcelNames
                                             THEN "xlsxwriter" ELSE "pyexcel"])
    /\ UNCHANGED <<book, bookGiven, bookNext, bookFiles, bookStage>>
    /\ UNCHANGED <<colVars, rangeVars, shiftVars, lookupVars, insertVars, registryVars,
                   textVars, templateVars, parseVars, nameVars, travVars, findVars>>

\* SPSBook.execute returns after the last file
BookReturn ==
    /\ bookStage = "execute"
    /\ bookNext > Len(book)
    /\ Len(bookWritten) = Len(bookFiles)
    /\ bookStage' = "done"
    /\ UNCHANGED <<book, bookGiven, bookNext, bookFiles, bookWritten>>
    /\ UNCHANGED <<colVars, rangeVars, shiftVars, lookupVars, insertVars, registryVars,
                   textVars, templateVars, parseVars, nameVars, travVars, findVars>>

BookNext == BookTurn \/ BookWrite \/ BookReturn

BookSpec == BookInit /\ [][BookNext]_vars

\* what a spreadsheet of the book returns when it is executed
Returned(k) ==
    SPSSpreadsheetExecute(book[k], bookGiven.dbname, bookGiven.spsname,
                          bookGiven.sheetname, bookGiven.override)

\* the k-th spreadsheet fails, or it names the file and the sheet of a
\* spreadsheet before it
Troubled(k) ==
    \/ Returned(k).exc # "none"
    \/ \E j \in 1..(k - 1) :
           /\ Returned(j).spsname = Returned(k).spsname
           /\ Returned(j).sheetname = Returned(k).sheetname

\* C30: SPSBook.execute writes no file before every spreadsheet of the book
\* has been executed: when a spreadsheet fails, or when two of them name
\* the same sheet of the same file, the run ends with no file written
C30_NoFileBeforeAll ==
    /\ bookWritten # <<>> =>
           bookNext > Len(book) /\ \A k \in 1..Len(book) : ~Troubled(k)
    /\ (bookStage \in {"done", "aborted"} /\ \E k \in 1..Len(book) : Troubled(k)) =>
           bookStage = "aborted" /\ bookWritten = <<>>

\* the second spreadsheet names the sheet of the file the first one opened
C30_Witness ==
    /\ bookStage = "aborted"
    /\ bookNext = 2
    /\ Len(bookFiles) = 1
    /\ Returned(2).exc = "none"
    /\ Returned(2).spsname = bookFiles[1].filename
    /\ Returned(2).sheetname = bookFiles[1].sheets[1].name
    /\ bookWritten = <<>>

====
